---- MODULE Spec2Model ----
(***************************************************************************)
(* Model of the event pipeline of captain_cmd:                             *)
(*   process_agent (src/chat/chat.py)  raw agent stream -> events          *)
(*   ChatStream    (src/chat/chat.py)  events -> serialised events         *)
(*   main          (src/main.py)       the consumer loop that renders the  *)
(*                                     events and pairs calls with results *)
(* Python values: None is the string "None", a dict is a function from its *)
(* keys, a list or tuple is a sequence, json text is the record            *)
(* [json |-> value].                                                       *)
(***************************************************************************)
EXTENDS Integers, Sequences, FiniteSets, TLC

VARIABLES
    pc,                \* "idle" (main waits at the prompt) or "streaming" (inside async for)
    endedBy,           \* how the turn that has just ended left the stream: "exhausted",
                       \* "source_fault", "cancelled", "item_fault"; "none" before and during a turn
    raw,               \* the raw items the agent runtime has yielded in this turn
    active_subagents,  \* process_agent: dict 'task:<id>' -> sub-agent name
    current_subagent,  \* process_agent: state["current_subagent"]
    out,               \* the events ChatStream has yielded in this turn
    prov,              \* for each event of out: <<raw item index, node index, message index, element index>>
    tool_calls,        \* main: dict tool id -> call info
    tool_results,      \* main: dict tool id -> buffered result
    thinking_buffer,   \* main: list of thinking fragments
    answer_buffer,     \* main: list of answer fragments
    current_live,      \* main: the running Live display, or None
    panels,            \* what main has printed permanently on the console in this turn
    resources,         \* chat.py globals _store and _checkpoint: None or the open handles
    major_agent,       \* chat.py global _major_agent: None or the agent build_agent made
    request,           \* the keyword arguments of the ChatStream call of this turn
    agent,             \* ChatStream's local agent: the agent this turn runs, or None
    closed,            \* the handles cleanup_resources has closed
    aupdate_calls      \* the calls of agent.aupdate_state in this turn: the values passed
                       \* and the place of the result they were made for

vars == <<pc, endedBy, raw, active_subagents, current_subagent, out, prov,
          tool_calls, tool_results, thinking_buffer, answer_buffer,
          current_live, panels, resources, major_agent, request, agent, closed, aupdate_calls>>

---------------------------------------------------------------------------
(* Bounds and input universe *)

\* raw items the runtime yields per turn, at most
MaxItems == 3

\* the same, when the runtime yields root-level items only
MaxRootItems == 4

None == "None"

\* an empty dict / an empty list
EmptyDict == [k \in {} |-> None]

\* dict.get(key, default)
Get(d, k, default) == IF k \in DOMAIN d THEN d[k] ELSE default

\* del d[k]
Del(d, k) == [x \in (DOMAIN d) \ {k} |-> d[x]]

\* d[k] = v
Put(d, k, v) == [x \in (DOMAIN d) \cup {k} |-> IF x = k THEN v ELSE d[x]]

Ids == {"c1", "c2"}

\* namespace segments: <<prefix, rest>> stands for the string prefix + rest
TaskSeg(i) == <<"task:", i>>
ToolsSeg   == <<"tools:", "n1">>

\* the key f"task:{task_call_id}" of active_subagents
TaskKey(i) == <<"task:", i>>

RootNs == <<>>

\* tool calls (dicts) and messages
Call(n, i, a) == [name |-> n, args |-> a, id |-> i]
NamelessCall(i) == [args |-> EmptyDict, id |-> i]
SearchArgs == [query |-> "x"]
TaskArgs(n) == [subagent_type |-> n, description |-> "find X"]

AIMessage(tcs) ==
    [cls |-> "AIMessage", tool_calls |-> tcs, name |-> None,
     content |-> "", tool_call_id |-> None]
ToolMessage(n, i, c) ==
    [cls |-> "ToolMessage", tool_calls |-> <<>>, name |-> n,
     content |-> c, tool_call_id |-> i]

\* an "updates" item with one node carrying the messages msgs; the chunk is a
\* dict, kept as the list of its (node_name, node_data) items
UpdateItem(ns, msgs) ==
    [namespace |-> ns, stream_mode |-> "updates",
     chunk |-> [items |-> << <<"node", [messages |-> msgs]>> >>]]

\* a "messages" item: chunk = (token, metadata), kept as the list of its parts
TokenItem(ns, blocks, node) ==
    [namespace |-> ns, stream_mode |-> "messages",
     chunk |-> [parts |-> << [content_blocks |-> blocks], [langgraph_node |-> node] >>]]

TextBlock(t) == [type |-> "text", text |-> t]
ReasoningBlock(t) == [type |-> "reasoning", reasoning |-> t]

SubagentOf(i) == IF i = "c1" THEN "researcher" ELSE "coder"

\* root-level items: ordinary calls and results, delegation calls and results,
\* a request whose first tool call has no name
RootItems ==
    {UpdateItem(RootNs, <<AIMessage(<<Call("search", i, SearchArgs)>>)>>) : i \in Ids}
    \cup {UpdateItem(RootNs, <<ToolMessage("search", i, "ok")>>) : i \in Ids}
    \cup {UpdateItem(RootNs, <<AIMessage(<<Call("task", i, TaskArgs(SubagentOf(i)))>>)>>) : i \in Ids}
    \cup {UpdateItem(RootNs, <<ToolMessage("task", i, "done")>>) : i \in Ids}
    \cup {UpdateItem(RootNs, <<AIMessage(<<NamelessCall("c2"), Call("search", "c1", SearchArgs)>>)>>),
          UpdateItem(RootNs, <<AIMessage(<<Call("search", "c1", SearchArgs),
                                           Call("search", "c2", SearchArgs)>>)>>),
          TokenItem(RootNs, <<ReasoningBlock("hm"), TextBlock("Hi")>>, "model")}

\* items of a sub-agent's namespace
SubItems ==
    {UpdateItem(<<TaskSeg(i)>>, <<ToolMessage("search", "c2", "ok")>>) : i \in Ids}
    \cup {UpdateItem(<<TaskSeg(i)>>, <<ToolMessage("task", i, "done")>>) : i \in Ids}
    \cup {UpdateItem(<<TaskSeg("c1")>>, <<AIMessage(<<Call("search", "c2", SearchArgs)>>)>>),
          TokenItem(<<TaskSeg("c1")>>, <<TextBlock("Hi")>>, "model"),
          TokenItem(<<ToolsSeg>>, <<TextBlock("Hi")>>, "model")}

\* a sub-agent's namespace with two task: segments, and one whose first
\* segment is not a task: segment
NestedNs == <<TaskSeg("c1"), TaskSeg("c2")>>
MixedNs == <<ToolsSeg, TaskSeg("c2"), TaskSeg("c1")>>

\* delegations: the root's task calls and their results, items of namespaces
\* with several segments, a task call made inside a sub-agent's namespace,
\* and ordinary root-level items
DelegItems ==
    {UpdateItem(RootNs, <<AIMessage(<<Call("task", i, TaskArgs(SubagentOf(i)))>>)>>) : i \in Ids}
    \cup {UpdateItem(RootNs, <<ToolMessage("task", i, "done")>>) : i \in Ids}
    \cup {TokenItem(MixedNs, <<TextBlock("Hi")>>, "model"),
          UpdateItem(NestedNs, <<AIMessage(<<Call("search", "c2", SearchArgs)>>)>>),
          TokenItem(<<ToolsSeg>>, <<TextBlock("Hi")>>, "model"),
          UpdateItem(<<TaskSeg("c1")>>, <<AIMessage(<<Call("task", "c2", TaskArgs("coder"))>>)>>),
          UpdateItem(RootNs, <<AIMessage(<<Call("search", "c1", SearchArgs)>>)>>),
          UpdateItem(RootNs, <<ToolMessage("search", "c1", "ok")>>),
          TokenItem(RootNs, <<TextBlock("Hi")>>, "model")}

RawItems == RootItems \cup SubItems

\* a token without the attribute content_blocks
PlainToken == [content |-> "Hi"]

\* "messages" items: tokens and metadata that are None, chunks that are None or
\* lack the metadata, tokens without blocks; blocks of every tag, from the
\* model node and from another node, at the root and in a sub-agent's
\* namespace; the delegation call that registers the sub-agent's name
TokenItems ==
    {[namespace |-> RootNs, stream_mode |-> "messages", chunk |-> c] :
        c \in {[parts |-> << [none |-> TRUE], [langgraph_node |-> "model"] >>],
               [parts |-> << [content_blocks |-> <<TextBlock("Hi")>>], [none |-> TRUE] >>],
               [parts |-> << [content_blocks |-> <<TextBlock("Hi")>>] >>],
               [none |-> TRUE],
               [parts |-> << PlainToken, [langgraph_node |-> "model"] >>]}}
    \cup {TokenItem(RootNs, <<>>, "model"),
          TokenItem(RootNs, <<TextBlock("Hi")>>, "model"),
          TokenItem(<<TaskSeg("c1")>>, <<TextBlock("Hi")>>, "model"),
          TokenItem(RootNs, <<[type |-> "image", url |-> "u"], ReasoningBlock("hm"),
                              TextBlock("Hi")>>, "model"),
          TokenItem(RootNs, <<TextBlock("Hi"), ReasoningBlock("hm")>>, "tools"),
          TokenItem(<<TaskSeg("c1")>>, <<ReasoningBlock("hm"), [type |-> "image", url |-> "u"],
                                         TextBlock("Hi")>>, "tools"),
          TokenItem(<<ToolsSeg>>, <<TextBlock("Hi")>>, "model"),
          UpdateItem(RootNs, <<AIMessage(<<Call("task", "c1", TaskArgs("researcher"))>>)>>),
          UpdateItem(RootNs, <<ToolMessage("task", "c1", "done")>>)}

\* a result whose message has no name
NamelessResult(i, c) ==
    [cls |-> "ToolMessage", tool_calls |-> <<>>, content |-> c, tool_call_id |-> i]

\* "updates" items with tool calls and results that lack a field
MalformedItems ==
    {UpdateItem(RootNs, <<AIMessage(<<NamelessCall("c2"), Call("search", "c1", SearchArgs)>>)>>),
     UpdateItem(RootNs, <<AIMessage(<<NamelessCall("c2")>>), ToolMessage("search", "c1", "ok")>>),
     UpdateItem(RootNs, <<AIMessage(<<[name |-> "search", args |-> SearchArgs]>>),
                          ToolMessage("search", "c1", "ok")>>),
     UpdateItem(RootNs, <<AIMessage(<<[name |-> "search", id |-> "c1"]>>),
                          ToolMessage("search", "c1", "ok")>>),
     UpdateItem(RootNs, <<AIMessage(<<[name |-> "task"]>>)>>),
     UpdateItem(RootNs, <<NamelessResult("c1", "ok"), ToolMessage("search", "c2", "ok")>>),
     UpdateItem(<<TaskSeg("c1")>>, <<AIMessage(<<[name |-> "search"]>>),
                                     NamelessResult("c2", "ok")>>)}

ShapeItems == TokenItems \cup MalformedItems

\* raw items per turn, at most, when they are drawn from ShapeItems
MaxShapeItems == 3

\* the texts a read_image result may carry (the content of a ToolMessage is a
\* str here, as the tools of this program return it)
TaggedImageText    == "{\"__vlm_image__\": true, \"content\": \"img\"}"
TaggedRejectedText == "{\"__vlm_image__\": true, \"content\": \"rejected\"}"
TaggedEmptyText    == "{\"__vlm_image__\": true, \"content\": \"\"}"
UntaggedImageText  == "{\"content\": \"img\"}"
JsonListText       == "[\"img\"]"

\* items around the read_image tool: its results at the root with every kind
\* of content, alone and with other messages, its result in a sub-agent's
\* namespace, the tagged text as the result of other tools and as a token
ImageItems ==
    {UpdateItem(RootNs, <<ToolMessage("read_image", "c1", c)>>) :
        c \in {TaggedImageText, TaggedRejectedText, TaggedEmptyText, UntaggedImageText,
               JsonListText, "ok"}}
    \cup {UpdateItem(RootNs, <<ToolMessage("search", "c1", TaggedImageText)>>),
          UpdateItem(RootNs, <<ToolMessage("task", "c1", TaggedImageText)>>),
          UpdateItem(<<TaskSeg("c1")>>, <<ToolMessage("read_image", "c2", TaggedImageText)>>),
          UpdateItem(RootNs, <<ToolMessage("read_image", "c1", TaggedRejectedText),
                               ToolMessage("search", "c2", "ok")>>),
          UpdateItem(RootNs, <<ToolMessage("read_image", "c1", TaggedImageText),
                               ToolMessage("read_image", "c2", TaggedImageText)>>),
          UpdateItem(RootNs, <<AIMessage(<<Call("read_image", "c1", [path |-> "a.png"])>>)>>),
          TokenItem(RootNs, <<TextBlock(TaggedImageText)>>, "model")}

\* raw items per turn, at most, when they are drawn from ImageItems
MaxImageItems == 3
\* raw items of a turn with delegations
MaxDelegItems == 4
\* raw items of a turn with skipped and faulting items
MaxEdgeItems == 3

---------------------------------------------------------------------------
(* process_agent, src/chat/chat.py *)

\* None where the value is an object (a token, a chunk, a node's data, a Live)
NoneObj == [none |-> TRUE]

\* raw items that are not a triple: a value that is no tuple, a tuple of two
NotATuple == [value |-> "x"]
PairItem == [namespace |-> RootNs, stream_mode |-> "updates"]

\* a root-level item whose messages are a task call followed by a call
\* without a name, and one whose messages are a task result followed by a
\* call without a name
FaultAfterStart ==
    UpdateItem(RootNs, <<AIMessage(<<Call("task", "c2", TaskArgs("coder")), NamelessCall("c1")>>)>>)
FaultAfterEnd ==
    UpdateItem(RootNs, <<ToolMessage("task", "c1", "done"), AIMessage(<<NamelessCall("c2")>>)>>)

\* an "updates" item whose first node has no data
NullThenCall ==
    [namespace |-> RootNs, stream_mode |-> "updates",
     chunk |-> [items |-> << <<"a", NoneObj>>,
                             <<"node", [messages |-> <<AIMessage(<<Call("search", "c1", SearchArgs)>>)>>]>> >>]]

\* items that process_agent skips, items that raise part-way, and the items
\* that show the tracker around them
EdgeItems ==
    {NotATuple, PairItem, FaultAfterStart, FaultAfterEnd, NullThenCall,
     [namespace |-> RootNs, stream_mode |-> "values",
      chunk |-> [items |-> << <<"node", [messages |->
                      <<AIMessage(<<Call("task", "c2", TaskArgs("coder"))>>)>>]>> >>]],
     [namespace |-> RootNs, stream_mode |-> "updates", chunk |-> NoneObj],
     [namespace |-> <<TaskSeg("c1")>>, stream_mode |-> "updates",
      chunk |-> [items |-> << <<"node", NoneObj>> >>]],
     UpdateItem(RootNs, <<AIMessage(<<Call("task", "c1", TaskArgs("researcher"))>>)>>),
     TokenItem(<<TaskSeg("c2")>>, <<TextBlock("Hi")>>, "model"),
     TokenItem(<<ToolsSeg>>, <<TextBlock("Hi")>>, "model")}

\* the content of the error event of the per-item except clause
InnerError == "[process_agent] Inner exception"

\* the content of the error event of the outer except clause
OuterError == "[process_agent] Error"

\* isinstance(raw_data, tuple) and len(raw_data) == 3 (line 208): a triple is
\* kept as the record of its namespace, stream_mode and chunk
IsTriple(item) == DOMAIN item = {"namespace", "stream_mode", "chunk"}

\* is_subagent = len(namespace) > 0 if namespace else False
IsSubagent(namespace) == Len(namespace) > 0

\* a variant that takes the last task: segment of the namespace
RECURSIVE FirstTaskSeg_Last(_, _)
FirstTaskSeg_Last(namespace, k) ==
    IF k > Len(namespace) THEN 0
    ELSE LET later == FirstTaskSeg_Last(namespace, k + 1)
         IN IF later # 0 THEN later
            ELSE IF namespace[k][1] = "task:" THEN k ELSE 0

\* index of the first segment that starts with "task:", 0 when there is none
RECURSIVE FirstTaskSeg(_, _)
FirstTaskSeg(namespace, k) ==
    IF k > Len(namespace) THEN 0
    ELSE IF namespace[k][1] = "task:" THEN k
    ELSE FirstTaskSeg(namespace, k + 1)

\* a variant that takes the current sub-agent whenever there is one
SubagentName_PrefersCurrent(namespace, subagents, current) ==
    IF ~IsSubagent(namespace) THEN None
    ELSE LET k == FirstTaskSeg(namespace, 1)
             found == IF k = 0 THEN None ELSE Get(subagents, namespace[k], None)
         IN IF current # None THEN current ELSE found

\* subagent_name of an item: the name registered for the first task: segment,
\* else state["current_subagent"]; None for the root namespace
SubagentName(namespace, subagents, current) ==
    IF ~IsSubagent(namespace) THEN None
    ELSE LET k == FirstTaskSeg(namespace, 1)
             found == IF k = 0 THEN None ELSE Get(subagents, namespace[k], None)
         IN IF found = None THEN current ELSE found

\* the accumulator of one item's processing: the events yielded so far with
\* their place in the item, the tracker, and whether an exception was raised
Emit(acc, ev, at) ==
    [acc EXCEPT !.events = Append(@, ev), !.src = Append(@, at)]

\* a variant that yields an ordinary tool call without its id
ProcessToolCall_DropsId(acc, tc, is_subagent, subagent_name, at) ==
    IF "name" \notin DOMAIN tc
    THEN [acc EXCEPT !.fault = TRUE, !.faultAt = at]
    ELSE
    LET tool_name == tc["name"] IN
    IF is_subagent
    THEN Emit(acc, [type |-> "sub_agent_tool_call", name |-> tool_name,
                    args |-> Get(tc, "args", EmptyDict), id |-> Get(tc, "id", None),
                    subagent |-> subagent_name], at)
    ELSE IF tool_name = "task"
    THEN LET task_args == Get(tc, "args", EmptyDict)
             task_call_id == Get(tc, "id", "")
             subagent_type == Get(task_args, "subagent_type", "general")
         IN Emit([acc EXCEPT
                    !.active_subagents = Put(@, TaskKey(task_call_id), subagent_type),
                    !.current_subagent = subagent_type],
                 [type |-> "sub_agent_start", subagent |-> subagent_type,
                  task |-> Get(task_args, "description", ""), id |-> task_call_id], at)
    ELSE Emit(acc, [type |-> "tool_call", name |-> tool_name,
                    args |-> Get(tc, "args", EmptyDict), id |-> None], at)

\* a variant in which a delegation call leaves the current sub-agent as it is
ProcessToolCall_NoCurrent(acc, tc, is_subagent, subagent_name, at) ==
    IF "name" \notin DOMAIN tc
    THEN [acc EXCEPT !.fault = TRUE, !.faultAt = at]
    ELSE
    LET tool_name == tc["name"] IN
    IF is_subagent
    THEN Emit(acc, [type |-> "sub_agent_tool_call", name |-> tool_name,
                    args |-> Get(tc, "args", EmptyDict), id |-> Get(tc, "id", None),
                    subagent |-> subagent_name], at)
    ELSE IF tool_name = "task"
    THEN LET task_args == Get(tc, "args", EmptyDict)
             task_call_id == Get(tc, "id", "")
             subagent_type == Get(task_args, "subagent_type", "general")
         IN Emit([acc EXCEPT
                    !.active_subagents = Put(@, TaskKey(task_call_id), subagent_type)],
                 [type |-> "sub_agent_start", subagent |-> subagent_type,
                  task |-> Get(task_args, "description", ""), id |-> task_call_id], at)
    ELSE Emit(acc, [type |-> "tool_call", name |-> tool_name,
                    args |-> Get(tc, "args", EmptyDict), id |-> Get(tc, "id", None)], at)

\* one tool call of a request message (lines 289-325)
ProcessToolCall(acc, tc, is_subagent, subagent_name, at) ==
    IF "name" \notin DOMAIN tc
    THEN [acc EXCEPT !.fault = TRUE, !.faultAt = at]     \* tc['name'] raises KeyError
    ELSE
    LET tool_name == tc["name"] IN
    IF is_subagent
    THEN Emit(acc, [type |-> "sub_agent_tool_call", name |-> tool_name,
                    args |-> Get(tc, "args", EmptyDict), id |-> Get(tc, "id", None),
                    subagent |-> subagent_name], at)
    ELSE IF tool_name = "task"
    THEN LET task_args == Get(tc, "args", EmptyDict)
             task_call_id == Get(tc, "id", "")
             subagent_type == Get(task_args, "subagent_type", "general")
         IN Emit([acc EXCEPT
                    !.active_subagents = Put(@, TaskKey(task_call_id), subagent_type),
                    !.current_subagent = subagent_type],
                 [type |-> "sub_agent_start", subagent |-> subagent_type,
                  task |-> Get(task_args, "description", ""), id |-> task_call_id], at)
    ELSE Emit(acc, [type |-> "tool_call", name |-> tool_name,
                    args |-> Get(tc, "args", EmptyDict), id |-> Get(tc, "id", None)], at)

\* a variant that walks the tool calls from the last to the first
RECURSIVE ProcessToolCalls_Reversed(_, _, _, _, _, _)
ProcessToolCalls_Reversed(acc, tcs, j, is_subagent, subagent_name, at) ==
    IF acc.fault \/ j > Len(tcs) THEN acc
    ELSE ProcessToolCalls_Reversed(
            ProcessToolCall(acc, tcs[Len(tcs) + 1 - j], is_subagent, subagent_name,
                            <<at[1], at[2], Len(tcs) + 1 - j>>),
            tcs, j + 1, is_subagent, subagent_name, at)

RECURSIVE ProcessToolCalls(_, _, _, _, _, _)
ProcessToolCalls(acc, tcs, j, is_subagent, subagent_name, at) ==
    IF acc.fault \/ j > Len(tcs) THEN acc
    ELSE ProcessToolCalls(
            ProcessToolCall(acc, tcs[j], is_subagent, subagent_name, <<at[1], at[2], j>>),
            tcs, j + 1, is_subagent, subagent_name, at)

\* a variant that takes every root-level result for a delegation's result
ProcessToolResult_AllDelegations(acc, msg, is_subagent, subagent_name, at) ==
    IF is_subagent
    THEN Emit(acc, [type |-> "sub_agent_tool_result", content |-> msg.content,
                    id |-> msg.tool_call_id, subagent |-> subagent_name], at)
    ELSE [Emit(acc, [type |-> "sub_agent_end", content |-> msg.content,
                     id |-> msg.tool_call_id], at)
            EXCEPT !.current_subagent = None]

\* json.loads of a tool result's content: the parsed value, or JSONDecodeError
JsonParse(text) ==
    CASE text = TaggedImageText
            -> [ok |-> TRUE, dict |-> TRUE, value |-> ("__vlm_image__" :> TRUE) @@ ("content" :> "img")]
      [] text = TaggedRejectedText
            -> [ok |-> TRUE, dict |-> TRUE, value |-> ("__vlm_image__" :> TRUE) @@ ("content" :> "rejected")]
      [] text = TaggedEmptyText
            -> [ok |-> TRUE, dict |-> TRUE, value |-> ("__vlm_image__" :> TRUE) @@ ("content" :> "")]
      [] text = UntaggedImageText
            -> [ok |-> TRUE, dict |-> TRUE, value |-> ("content" :> "img")]
      [] text = JsonListText
            -> [ok |-> TRUE, dict |-> FALSE, value |-> <<"img">>]
      [] OTHER -> [ok |-> FALSE, dict |-> FALSE, value |-> None]

\* the content of the error event of the except clause of the image injection
InjectError == "Failed to inject image message"

\* agent.aupdate_state(config, values) raises for the values the runtime rejects
aupdate_state_raises(values) == values.messages[1].content = "rejected"

\* a variant in which a failing injection is left to the except clause of the
\* whole item
InjectImage_AbortsItem(acc, msg, tool_name, at) ==
    IF tool_name # "read_image" THEN acc
    ELSE
    LET parsed == JsonParse(msg.content)
        image_content == IF parsed.ok /\ parsed.dict
                            /\ Get(parsed.value, "__vlm_image__", FALSE) = TRUE
                         THEN Get(parsed.value, "content", None)
                         ELSE None
        values == [messages |-> << [cls |-> "HumanMessage", content |-> image_content] >>]
    IN IF image_content = None \/ image_content = "" THEN acc
       ELSE LET called == [acc EXCEPT !.aupdate_calls = Append(@, [values |-> values, at |-> at])]
            IN IF aupdate_state_raises(values)
               THEN [called EXCEPT !.fault = TRUE, !.faultAt = <<at[1], at[2], at[3] + 1>>]
               ELSE called

\* a variant that injects the content of the result of any tool
InjectImage_AnyTool(acc, msg, tool_name, at) ==
    LET parsed == JsonParse(msg.content)
        image_content == IF parsed.ok /\ parsed.dict
                            /\ Get(parsed.value, "__vlm_image__", FALSE) = TRUE
                         THEN Get(parsed.value, "content", None)
                         ELSE None
        values == [messages |-> << [cls |-> "HumanMessage", content |-> image_content] >>]
    IN IF image_content = None \/ image_content = "" THEN acc
       ELSE LET called == [acc EXCEPT !.aupdate_calls = Append(@, [values |-> values, at |-> at])]
            IN IF aupdate_state_raises(values)
               THEN Emit(called, [type |-> "error", content |-> InjectError],
                         <<at[1], at[2], at[3] + 1>>)
               ELSE called

\* the image re-injection after a tool_result event (lines 357-388)
InjectImage(acc, msg, tool_name, at) ==
    IF tool_name # "read_image" THEN acc
    ELSE
    LET parsed == JsonParse(msg.content)
        image_content == IF parsed.ok /\ parsed.dict
                            /\ Get(parsed.value, "__vlm_image__", FALSE) = TRUE
                         THEN Get(parsed.value, "content", None)
                         ELSE None
        values == [messages |-> << [cls |-> "HumanMessage", content |-> image_content] >>]
    IN IF image_content = None \/ image_content = "" THEN acc
       ELSE LET called == [acc EXCEPT !.aupdate_calls = Append(@, [values |-> values, at |-> at])]
            IN IF aupdate_state_raises(values)
               THEN Emit(called, [type |-> "error", content |-> InjectError],
                         <<at[1], at[2], at[3] + 1>>)
               ELSE called

\* a variant in which a delegation's result erases the delegation's key
ProcessToolResult_ErasesKey(acc, msg, is_subagent, subagent_name, at) ==
    LET tool_name == Get(msg, "name", "") IN
    IF is_subagent
    THEN Emit(acc, [type |-> "sub_agent_tool_result", content |-> msg.content,
                    id |-> msg.tool_call_id, subagent |-> subagent_name], at)
    ELSE IF tool_name = "task"
    THEN [Emit(acc, [type |-> "sub_agent_end", content |-> msg.content,
                     id |-> msg.tool_call_id], at)
            EXCEPT !.current_subagent = None,
                   !.active_subagents = Del(@, TaskKey(msg.tool_call_id))]
    ELSE InjectImage(Emit(acc, [type |-> "tool_result", content |-> msg.content,
                                id |-> msg.tool_call_id], at),
                     msg, tool_name, at)

\* the result branch of a message (lines 328-388)
ProcessToolResult(acc, msg, is_subagent, subagent_name, at) ==
    LET tool_name == Get(msg, "name", "") IN
    IF is_subagent
    THEN Emit(acc, [type |-> "sub_agent_tool_result", content |-> msg.content,
                    id |-> msg.tool_call_id, subagent |-> subagent_name], at)
    ELSE IF tool_name = "task"
    THEN [Emit(acc, [type |-> "sub_agent_end", content |-> msg.content,
                     id |-> msg.tool_call_id], at)
            EXCEPT !.current_subagent = None]
    ELSE InjectImage(Emit(acc, [type |-> "tool_result", content |-> msg.content,
                                id |-> msg.tool_call_id], at),
                     msg, tool_name, at)

\* one message of a node's messages list (lines 286-388)
ProcessMessage(acc, msg, is_subagent, subagent_name, at) ==
    LET called == IF Len(msg.tool_calls) > 0
                  THEN ProcessToolCalls(acc, msg.tool_calls, 1, is_subagent, subagent_name, at)
                  ELSE acc
    IN IF called.fault \/ msg.cls # "ToolMessage" THEN called
       ELSE ProcessToolResult(called, msg, is_subagent, subagent_name,
                              <<at[1], at[2], Len(msg.tool_calls) + 1>>)

RECURSIVE ProcessMessages(_, _, _, _, _, _)
ProcessMessages(acc, msgs, m, is_subagent, subagent_name, n) ==
    IF acc.fault \/ m > Len(msgs) THEN acc
    ELSE ProcessMessages(
            ProcessMessage(acc, msgs[m], is_subagent, subagent_name, <<n, m, 0>>),
            msgs, m + 1, is_subagent, subagent_name, n)

\* the nodes of an "updates" chunk (lines 279-286)
RECURSIVE ProcessNodes(_, _, _, _, _)
ProcessNodes(acc, items, n, is_subagent, subagent_name) ==
    IF acc.fault \/ n > Len(items) THEN acc
    ELSE LET node_data == items[n][2]
             next == IF node_data = NoneObj THEN acc
                     ELSE ProcessMessages(acc, Get(node_data, "messages", <<>>), 1,
                                          is_subagent, subagent_name, n)
         IN ProcessNodes(next, items, n + 1, is_subagent, subagent_name)

\* a variant that takes a text block of any node for the model's answer
ProcessBlock_AnyNode(acc, block, node_name, is_subagent, subagent_name, at) ==
    IF Get(block, "type", None) = "text"
    THEN IF is_subagent
         THEN Emit(acc, [type |-> "sub_agent_answer", content |-> Get(block, "text", ""),
                         subagent |-> subagent_name], at)
         ELSE Emit(acc, [type |-> "model_answer", content |-> Get(block, "text", "")], at)
    ELSE IF Get(block, "type", None) = "reasoning"
    THEN IF is_subagent
         THEN Emit(acc, [type |-> "sub_agent_thinking",
                         content |-> Get(block, "reasoning", ""),
                         subagent |-> subagent_name], at)
         ELSE Emit(acc, [type |-> "model_thinking",
                         content |-> Get(block, "reasoning", "")], at)
    ELSE acc

\* one content block of a token (lines 243-271)
ProcessBlock(acc, block, node_name, is_subagent, subagent_name, at) ==
    IF Get(block, "type", None) = "text" /\ node_name = "model"
    THEN IF is_subagent
         THEN Emit(acc, [type |-> "sub_agent_answer", content |-> Get(block, "text", ""),
                         subagent |-> subagent_name], at)
         ELSE Emit(acc, [type |-> "model_answer", content |-> Get(block, "text", "")], at)
    ELSE IF Get(block, "type", None) = "reasoning"
    THEN IF is_subagent
         THEN Emit(acc, [type |-> "sub_agent_thinking",
                         content |-> Get(block, "reasoning", ""),
                         subagent |-> subagent_name], at)
         ELSE Emit(acc, [type |-> "model_thinking",
                         content |-> Get(block, "reasoning", "")], at)
    ELSE acc

RECURSIVE ProcessBlocks(_, _, _, _, _, _)
ProcessBlocks(acc, blocks, b, node_name, is_subagent, subagent_name) ==
    IF b > Len(blocks) THEN acc
    ELSE ProcessBlocks(
            ProcessBlock(acc, blocks[b], node_name, is_subagent, subagent_name, <<1, 1, b>>),
            blocks, b + 1, node_name, is_subagent, subagent_name)

\* the "messages" branch (lines 231-271)
ProcessToken(acc, chunk, is_subagent, subagent_name) ==
    IF chunk = NoneObj \/ Len(chunk.parts) # 2
    THEN [acc EXCEPT !.fault = TRUE, !.faultAt = <<1, 1, 0>>]  \* token, metadata = chunk raises
    ELSE
    LET token == chunk.parts[1]
        metadata == chunk.parts[2]
    IN IF metadata = NoneObj \/ token = NoneObj THEN acc
       ELSE IF "content_blocks" \notin DOMAIN token THEN acc
       ELSE IF Len(token.content_blocks) = 0 THEN acc
       ELSE ProcessBlocks(acc, token.content_blocks, 1,
                          Get(metadata, "langgraph_node", ""), is_subagent, subagent_name)

\* a variant whose except clause leaves the loop after the error event
ProcessItem_EndsOnFault(item, subagents, current) ==
    LET is_subagent == IsSubagent(item.namespace)
        subagent_name == SubagentName(item.namespace, subagents, current)
        acc0 == [events |-> <<>>, src |-> <<>>, active_subagents |-> subagents,
                 current_subagent |-> current, fault |-> FALSE, faultAt |-> <<0, 0, 0>>,
                 ended |-> FALSE, aupdate_calls |-> <<>>]
        acc == IF item.stream_mode = "messages"
               THEN ProcessToken(acc0, item.chunk, is_subagent, subagent_name)
               ELSE IF item.stream_mode = "updates"
               THEN IF item.chunk = NoneObj THEN acc0
                    ELSE ProcessNodes(acc0, item.chunk.items, 1, is_subagent, subagent_name)
               ELSE acc0
    IN IF acc.fault
       THEN [Emit(acc, [type |-> "error", content |-> InnerError], acc.faultAt)
                EXCEPT !.ended = TRUE]
       ELSE acc

\* a variant whose except clause restores the tracker as it was before the item
ProcessItem_RollsBack(item, subagents, current) ==
    LET is_subagent == IsSubagent(item.namespace)
        subagent_name == SubagentName(item.namespace, subagents, current)
        acc0 == [events |-> <<>>, src |-> <<>>, active_subagents |-> subagents,
                 current_subagent |-> current, fault |-> FALSE, faultAt |-> <<0, 0, 0>>,
                 ended |-> FALSE, aupdate_calls |-> <<>>]
        acc == IF ~IsTriple(item) THEN acc0
               ELSE IF item.stream_mode = "messages"
               THEN ProcessToken(acc0, item.chunk, is_subagent, subagent_name)
               ELSE IF item.stream_mode = "updates"
               THEN IF item.chunk = NoneObj THEN acc0
                    ELSE ProcessNodes(acc0, item.chunk.items, 1, is_subagent, subagent_name)
               ELSE acc0
    IN IF acc.fault
       THEN [Emit(acc, [type |-> "error", content |-> InnerError], acc.faultAt)
                EXCEPT !.active_subagents = subagents, !.current_subagent = current]
       ELSE acc

\* a variant that unpacks the raw item without testing its shape
ProcessItem_Unpacks(item, subagents, current) ==
    LET is_subagent == IsSubagent(item.namespace)
        subagent_name == SubagentName(item.namespace, subagents, current)
        acc0 == [events |-> <<>>, src |-> <<>>, active_subagents |-> subagents,
                 current_subagent |-> current, fault |-> FALSE, faultAt |-> <<0, 0, 0>>,
                 ended |-> FALSE, aupdate_calls |-> <<>>]
        acc == IF ~IsTriple(item) THEN [acc0 EXCEPT !.fault = TRUE]
               ELSE IF item.stream_mode = "messages"
               THEN ProcessToken(acc0, item.chunk, is_subagent, subagent_name)
               ELSE IF item.stream_mode = "updates"
               THEN IF item.chunk = NoneObj THEN acc0
                    ELSE ProcessNodes(acc0, item.chunk.items, 1, is_subagent, subagent_name)
               ELSE acc0
    IN IF acc.fault
       THEN Emit(acc, [type |-> "error", content |-> InnerError], acc.faultAt)
       ELSE acc

\* the body of the async for loop for one raw item (lines 203-395): the events
\* it yields, the tracker it leaves, and the error event of the inner except
\* clause when the body raised; ended tells whether the generator has returned
\* (it has not: the inner except clause keeps the loop going)
ProcessItem(item, subagents, current) ==
    LET is_subagent == IsSubagent(item.namespace)
        subagent_name == SubagentName(item.namespace, subagents, current)
        acc0 == [events |-> <<>>, src |-> <<>>, active_subagents |-> subagents,
                 current_subagent |-> current, fault |-> FALSE, faultAt |-> <<0, 0, 0>>,
                 ended |-> FALSE, aupdate_calls |-> <<>>]
        acc == IF ~IsTriple(item) THEN acc0
               ELSE IF item.stream_mode = "messages"
               THEN ProcessToken(acc0, item.chunk, is_subagent, subagent_name)
               ELSE IF item.stream_mode = "updates"
               THEN IF item.chunk = NoneObj THEN acc0
                    ELSE ProcessNodes(acc0, item.chunk.items, 1, is_subagent, subagent_name)
               ELSE acc0
    IN IF acc.fault
       THEN Emit(acc, [type |-> "error", content |-> InnerError], acc.faultAt)
       ELSE acc

---------------------------------------------------------------------------
(* ChatStream, src/chat/chat.py *)

\* json.dumps(value) and json.loads(text)
JsonDumps(value) == [json |-> value]
JsonLoads(text) == text.json

\* a variant that has no branch for sub_agent_thinking
ChatStreamYield_DropsThinking(message) ==
    IF message.type \in {"model_answer", "model_thinking", "error"}
    THEN << [type |-> message.type, content |-> message.content] >>
    ELSE IF message.type = "tool_call"
    THEN << [type |-> "tool_call",
             content |-> JsonDumps([name |-> message.name, args |-> message.args,
                                    id |-> message.id])] >>
    ELSE IF message.type = "tool_result"
    THEN << [type |-> "tool_result",
             content |-> JsonDumps([content |-> message.content, id |-> message.id])] >>
    ELSE IF message.type = "sub_agent_start"
    THEN << [type |-> "sub_agent_start", subagent |-> Get(message, "subagent", None),
             task |-> Get(message, "task", None), id |-> Get(message, "id", None)] >>
    ELSE IF message.type = "sub_agent_end"
    THEN << [type |-> "sub_agent_end", content |-> message.content,
             id |-> Get(message, "id", None)] >>
    ELSE IF message.type = "sub_agent_answer"
    THEN << [type |-> message.type, content |-> message.content,
             subagent |-> Get(message, "subagent", None)] >>
    ELSE IF message.type = "sub_agent_tool_call"
    THEN << [type |-> "sub_agent_tool_call",
             content |-> JsonDumps([name |-> message.name, args |-> message.args,
                                    id |-> message.id,
                                    subagent |-> Get(message, "subagent", None)])] >>
    ELSE IF message.type = "sub_agent_tool_result"
    THEN << [type |-> "sub_agent_tool_result",
             content |-> JsonDumps([content |-> message.content, id |-> message.id,
                                    subagent |-> Get(message, "subagent", None)])] >>
    ELSE <<>>

\* the body of ChatStream's async for loop (lines 451-529): what it yields for
\* one event of process_agent, as a list of zero or one events
ChatStreamYield(message) ==
    IF message.type \in {"model_answer", "model_thinking", "error"}
    THEN << [type |-> message.type, content |-> message.content] >>
    ELSE IF message.type = "tool_call"
    THEN << [type |-> "tool_call",
             content |-> JsonDumps([name |-> message.name, args |-> message.args,
                                    id |-> message.id])] >>
    ELSE IF message.type = "tool_result"
    THEN << [type |-> "tool_result",
             content |-> JsonDumps([content |-> message.content, id |-> message.id])] >>
    ELSE IF message.type = "sub_agent_start"
    THEN << [type |-> "sub_agent_start", subagent |-> Get(message, "subagent", None),
             task |-> Get(message, "task", None), id |-> Get(message, "id", None)] >>
    ELSE IF message.type = "sub_agent_end"
    THEN << [type |-> "sub_agent_end", content |-> message.content,
             id |-> Get(message, "id", None)] >>
    ELSE IF message.type \in {"sub_agent_answer", "sub_agent_thinking"}
    THEN << [type |-> message.type, content |-> message.content,
             subagent |-> Get(message, "subagent", None)] >>
    ELSE IF message.type = "sub_agent_tool_call"
    THEN << [type |-> "sub_agent_tool_call",
             content |-> JsonDumps([name |-> message.name, args |-> message.args,
                                    id |-> message.id,
                                    subagent |-> Get(message, "subagent", None)])] >>
    ELSE IF message.type = "sub_agent_tool_result"
    THEN << [type |-> "sub_agent_tool_result",
             content |-> JsonDumps([content |-> message.content, id |-> message.id,
                                    subagent |-> Get(message, "subagent", None)])] >>
    ELSE <<>>

---------------------------------------------------------------------------
(* main, src/main.py: the consumer loop *)

\* stop_current_live (lines 95-100); a Live that is not transient leaves its
\* last frame on the console when it stops
stop_current_live(st) ==
    IF st.current_live = NoneObj THEN st
    ELSE [st EXCEPT
            !.panels = IF st.current_live.transient THEN @
                       ELSE Append(@, st.current_live.renderable),
            !.current_live = NoneObj]

\* update_live (lines 80-93)
update_live(st, renderable, transient) ==
    IF st.current_live = NoneObj
    THEN [st EXCEPT !.current_live = [renderable |-> renderable, transient |-> transient]]
    ELSE [st EXCEPT !.current_live.renderable = renderable]

\* the panel "<name> - Complete" of lines 210-223 and 271-284; the id is not
\* shown, it is kept here to tell the pairings apart
CompletePanel(tool_id, tool_name, tool_args, tool_result) ==
    [kind |-> "complete", id |-> tool_id, name |-> tool_name,
     args |-> tool_args, result |-> tool_result]

\* response_type == "model_thinking" (lines 142-154)
OnModelThinking(st, content) ==
    LET st1 == [st EXCEPT !.thinking_buffer = Append(@, content)]
    IN update_live(st1, [kind |-> "thinking", text |-> st1.thinking_buffer], FALSE)

\* response_type == "model_answer" (lines 156-178)
OnModelAnswer(st, content) ==
    LET st1 == IF Len(st.thinking_buffer) > 0 /\ st.current_live # NoneObj
               THEN [stop_current_live(st) EXCEPT !.thinking_buffer = <<>>]
               ELSE st
        st2 == [st1 EXCEPT !.answer_buffer = Append(@, content)]
    IN update_live(st2, [kind |-> "answer", text |-> st2.answer_buffer], FALSE)

\* a variant that never looks for a buffered result
OnToolCall_NoBufferCheck(st, content) ==
    LET st1 == stop_current_live(st)
        tool_data == JsonLoads(content)
        tool_id == Get(tool_data, "id", "")
        tool_name == Get(tool_data, "name", "")
        tool_args == Get(tool_data, "args", EmptyDict)
    IN [st1 EXCEPT
          !.tool_calls = Put(@, tool_id, [name |-> tool_name, args |-> tool_args]),
          !.current_live = [renderable |-> [kind |-> "processing", id |-> tool_id,
                                            name |-> tool_name],
                            transient |-> TRUE]]

\* response_type == "tool_call" (lines 180-251)
OnToolCall(st, content) ==
    LET st1 == stop_current_live(st)
        tool_data == JsonLoads(content)
        tool_id == Get(tool_data, "id", "")
        tool_name == Get(tool_data, "name", "")
        tool_args == Get(tool_data, "args", EmptyDict)
        st2 == [st1 EXCEPT !.tool_calls =
                   Put(@, tool_id, [name |-> tool_name, args |-> tool_args])]
    IN IF tool_id \in DOMAIN st2.tool_results
       THEN [st2 EXCEPT
               !.panels = Append(@, CompletePanel(tool_id, tool_name, tool_args,
                                                  st2.tool_results[tool_id])),
               !.tool_results = Del(@, tool_id),
               !.tool_calls = Del(@, tool_id)]
       ELSE [st2 EXCEPT
               !.current_live = [renderable |-> [kind |-> "processing", id |-> tool_id,
                                                 name |-> tool_name],
                                 transient |-> TRUE]]

\* a variant that buffers every result, a pending call or not
OnToolResult_AlwaysBuffers(st, content) ==
    LET result_data == JsonLoads(content)
        tool_id == Get(result_data, "id", "")
        tool_result == Get(result_data, "content", content)
    IN [st EXCEPT !.tool_results = Put(@, tool_id, tool_result)]

\* response_type == "tool_result" (lines 253-291)
OnToolResult(st, content) ==
    LET result_data == JsonLoads(content)
        tool_id == Get(result_data, "id", "")
        tool_result == Get(result_data, "content", content)
    IN IF tool_id \in DOMAIN st.tool_calls
       THEN LET st1 == stop_current_live(st)
                tool_info == st1.tool_calls[tool_id]
            IN [st1 EXCEPT
                  !.panels = Append(@, CompletePanel(tool_id, tool_info.name,
                                                     tool_info.args, tool_result)),
                  !.tool_calls = Del(@, tool_id)]
       ELSE [st EXCEPT !.tool_results = Put(@, tool_id, tool_result)]

\* response_type == "error" (lines 293-300)
OnError(st, content) ==
    [stop_current_live(st) EXCEPT !.panels = Append(@, [kind |-> "error", text |-> content])]

\* the body of main's async for loop for one response (lines 139-300)
MainHandle(st, response) ==
    LET response_type == Get(response, "type", None)
        content == Get(response, "content", "")
    IN IF response_type = "model_thinking" THEN OnModelThinking(st, content)
       ELSE IF response_type = "model_answer" THEN OnModelAnswer(st, content)
       ELSE IF response_type = "tool_call" THEN OnToolCall(st, content)
       ELSE IF response_type = "tool_result" THEN OnToolResult(st, content)
       ELSE IF response_type = "error" THEN OnError(st, content)
       ELSE st

\* main's state of one turn
MainState ==
    [tool_calls |-> tool_calls, tool_results |-> tool_results,
     thinking_buffer |-> thinking_buffer, answer_buffer |-> answer_buffer,
     current_live |-> current_live, panels |-> panels]

\* a variant that keeps the buffered results of the turn before
FreshMainState_KeepsResults(st) ==
    [st EXCEPT !.tool_calls = EmptyDict,
               !.thinking_buffer = <<>>, !.answer_buffer = <<>>]

\* the state created at lines 123-127
FreshMainState(st) ==
    [st EXCEPT !.tool_calls = EmptyDict, !.tool_results = EmptyDict,
               !.thinking_buffer = <<>>, !.answer_buffer = <<>>]

\* lines 302-308, after the stream has ended
CleanupMainState(st) ==
    [stop_current_live(st) EXCEPT
        !.tool_calls = EmptyDict, !.tool_results = EmptyDict,
        !.thinking_buffer = <<>>, !.answer_buffer = <<>>]

---------------------------------------------------------------------------
(* The pipeline: process_agent yields, ChatStream reshapes, main renders; the
   generators run one event at a time, to completion, in this order *)

\* events evs (places srcs) of raw item number n, from the k-th on, through
\* ChatStream into main
RECURSIVE Deliver(_, _, _, _, _)
Deliver(p, evs, srcs, k, n) ==
    IF k > Len(evs) THEN p
    ELSE LET ys == ChatStreamYield(evs[k])
             p1 == IF Len(ys) = 0 THEN p
                   ELSE [out |-> Append(p.out, ys[1]),
                         prov |-> Append(p.prov, <<n>> \o srcs[k]),
                         main |-> MainHandle(p.main, ys[1])]
         IN Deliver(p1, evs, srcs, k + 1, n)

SetMain(st) ==
    /\ tool_calls' = st.tool_calls
    /\ tool_results' = st.tool_results
    /\ thinking_buffer' = st.thinking_buffer
    /\ answer_buffer' = st.answer_buffer
    /\ current_live' = st.current_live
    /\ panels' = st.panels

Init ==
    /\ pc = "idle"
    /\ endedBy = "none"
    /\ raw = <<>>
    /\ active_subagents = EmptyDict
    /\ current_subagent = None
    /\ out = <<>>
    /\ prov = <<>>
    /\ tool_calls = EmptyDict
    /\ tool_results = EmptyDict
    /\ thinking_buffer = <<>>
    /\ answer_buffer = <<>>
    /\ current_live = NoneObj
    /\ panels = <<>>
    /\ resources = NoneObj
    /\ major_agent = NoneObj
    /\ request = NoneObj
    /\ agent = NoneObj
    /\ closed = {}
    /\ aupdate_calls = <<>>

\* the pair of connections init_resources opens (chat.py 49-54); each run opens
\* new ones, told apart here by their number
Handles(n) == [conn |-> n]

\* the handles init_resources assigns when it runs: it runs only while _store
\* or _checkpoint is None, so all the handles opened before have been closed
FreshHandles == Handles(Cardinality(closed) + 1)

\* the agent create_agent returns (chat.py 119-176): it holds the model made
\* from model_name, base_url and api_key, the system prompt, and _store and
\* _checkpoint as they are when it is built
Agent(kwargs, res) ==
    [model_name |-> kwargs.model_name, base_url |-> kwargs.base_url,
     api_key |-> kwargs.api_key,
     system_prompt |-> Get(kwargs, "system_prompt", "you are a helpful assistant"),
     store |-> res, checkpointer |-> res]

\* the keyword arguments of a turn whose call binds
TurnKwargs ==
    [model_name |-> "m", base_url |-> "u", api_key |-> "k",
     system_prompt |-> "p", human_message |-> "q"]

\* ChatStream enters process_agent (chat.py 413-451): the resources are res,
\* the agent ag is the cached one or the one just built and cached
BeginStream(kwargs, res, ag) ==
    /\ pc' = "streaming"
    /\ resources' = res
    /\ major_agent' = ag
    /\ request' = kwargs
    /\ agent' = ag
    /\ closed' = closed
    /\ aupdate_calls' = <<>>
    /\ raw' = <<>>
    /\ out' = <<>>
    /\ prov' = <<>>
    /\ active_subagents' = EmptyDict
    /\ current_subagent' = None
    /\ SetMain([FreshMainState(MainState) EXCEPT !.panels = <<>>])
    /\ endedBy' = "none"

\* main reads a query and calls ChatStream, which calls process_agent
\* (main.py 110-138, chat.py 187-202). main passes the keywords list_mcp_tools
\* and workspace_path, which ChatStream does not declare; the call is taken
\* here as one that binds, so that the consumer loop can be studied; the
\* resources are connected and the agent is built, or they were already
\* (chat.py 413-449).
StartTurn ==
    /\ pc = "idle"
    /\ LET res == IF resources = NoneObj THEN FreshHandles ELSE resources
           ag == IF major_agent # NoneObj THEN major_agent ELSE Agent(TurnKwargs, res)
       IN BeginStream(TurnKwargs, res, ag)

\* the runtime yields one raw item and the pipeline runs it to completion
YieldItem(item, max) ==
    /\ pc = "streaming"
    /\ Len(raw) < max
    /\ LET r == ProcessItem(item, active_subagents, current_subagent)
           p == Deliver([out |-> out, prov |-> prov, main |-> MainState],
                        r.events, r.src, 1, Len(raw) + 1)
       IN /\ raw' = Append(raw, item)
          /\ active_subagents' = r.active_subagents
          /\ current_subagent' = r.current_subagent
          /\ out' = p.out
          /\ prov' = p.prov
          /\ SetMain(IF r.ended THEN CleanupMainState(p.main) ELSE p.main)
          /\ pc' = IF r.ended THEN "idle" ELSE pc
          /\ endedBy' = IF r.ended THEN "item_fault" ELSE endedBy
          /\ aupdate_calls' = aupdate_calls \o
                 [k \in 1..Len(r.aupdate_calls) |->
                    [values |-> r.aupdate_calls[k].values,
                     at |-> <<Len(raw) + 1>> \o r.aupdate_calls[k].at]]
          /\ UNCHANGED <<resources, major_agent, request, agent, closed>>

\* the runtime's stream ends; main leaves its loop and clears its state
Exhaust ==
    /\ pc = "streaming"
    /\ pc' = "idle"
    /\ endedBy' = "exhausted"
    /\ SetMain(CleanupMainState(MainState))
    /\ UNCHANGED <<raw, active_subagents, current_subagent, out, prov,
                   resources, major_agent, request, agent, closed, aupdate_calls>>

\* a variant in which the stream ends without an event when the source raises
SourceFault_Silent ==
    /\ pc = "streaming"
    /\ pc' = "idle"
    /\ endedBy' = "source_fault"
    /\ SetMain(CleanupMainState(MainState))
    /\ UNCHANGED <<raw, active_subagents, current_subagent, out, prov,
                   resources, major_agent, request, agent, closed, aupdate_calls>>

\* agent.astream raises: the outer except clause of process_agent yields one
\* error event and the generator ends (chat.py 397-402)
SourceFault ==
    /\ pc = "streaming"
    /\ LET p == Deliver([out |-> out, prov |-> prov, main |-> MainState],
                        << [type |-> "error", content |-> OuterError] >>,
                        << <<0, 0, 0>> >>, 1, Len(raw) + 1)
       IN /\ out' = p.out
          /\ prov' = p.prov
          /\ SetMain(CleanupMainState(p.main))
    /\ pc' = "idle"
    /\ endedBy' = "source_fault"
    /\ UNCHANGED <<raw, active_subagents, current_subagent,
                   resources, major_agent, request, agent, closed, aupdate_calls>>

\* a variant in which a cancelled stream yields an error event before it ends
Cancel_EmitsError ==
    /\ pc = "streaming"
    /\ LET p == Deliver([out |-> out, prov |-> prov, main |-> MainState],
                        << [type |-> "error", content |-> OuterError] >>,
                        << <<0, 0, 0>> >>, 1, Len(raw) + 1)
       IN /\ out' = p.out
          /\ prov' = p.prov
          /\ SetMain(stop_current_live(p.main))
    /\ pc' = "idle"
    /\ endedBy' = "cancelled"
    /\ UNCHANGED <<raw, active_subagents, current_subagent,
                   resources, major_agent, request, agent, closed, aupdate_calls>>

\* KeyboardInterrupt while main waits for the next response (main.py 310-324):
\* the generators are dropped where they stand, nothing is cleared
Cancel ==
    /\ pc = "streaming"
    /\ pc' = "idle"
    /\ endedBy' = "cancelled"
    /\ SetMain(stop_current_live(MainState))
    /\ UNCHANGED <<raw, active_subagents, current_subagent, out, prov,
                   resources, major_agent, request, agent, closed, aupdate_calls>>

Next ==
    \/ StartTurn
    \/ \E item \in RawItems : YieldItem(item, MaxItems)
    \/ Exhaust
    \/ SourceFault
    \/ Cancel

Spec == Init /\ [][Next]_vars

\* the parameters ChatStream declares (chat.py 404-410) and those of them
\* without a default
ChatStreamParams == {"model_name", "base_url", "api_key", "system_prompt", "human_message"}
RequiredParams == {"model_name", "base_url", "api_key"}

\* the keyword arguments main passes (main.py 130-138)
MainKwargs ==
    [model_name |-> "m", base_url |-> "u", api_key |-> "k", list_mcp_tools |-> <<"t">>,
     system_prompt |-> "p", human_message |-> "q", workspace_path |-> "w"]

\* a call with the declared parameters only
DeclaredKwargs(model_name, human_message) ==
    [model_name |-> model_name, base_url |-> "u", api_key |-> "k",
     system_prompt |-> "p", human_message |-> human_message]

CallArgs ==
    {MainKwargs, DeclaredKwargs("m", "q"), DeclaredKwargs("m", ""), DeclaredKwargs("", "q")}

\* Python binds the keyword arguments when ChatStream(...) is called; a keyword
\* that is not declared, or a required one that is missing, raises TypeError
Binds(kwargs) ==
    /\ DOMAIN kwargs \subseteq ChatStreamParams
    /\ RequiredParams \subseteq DOMAIN kwargs

\* what init_resources does (chat.py 44-63): it connects and sets up the
\* stores, or fails before or after _store and _checkpoint are assigned
InitOutcomes == {"ok", "connect_fails", "setup_fails"}

\* what build_agent does (chat.py 65-185): it returns the agent, returns None
\* (the except clause of lines 181-185), or raises (lines 76-119 are outside
\* its try)
BuildOutcomes == {"agent", "None", "raises"}

\* the contents of the error events of ChatStream's preamble
InvalidRequest == "Invalid request: missing required fields"
InitFailed == "Failed to initialize database"
BuildFailed == "Failed to build agent"
ChatStreamError == "[ChatStream] Error"

\* the panel of main's except Exception clause (main.py 329-338)
RequestErrorPanel == [kind |-> "request_error"]

\* bounds of the turns that begin with the whole of ChatStream
MaxChatItems == 2
\* raw items per turn, and runs of cleanup_resources that close handles, in
\* a program's life
MaxLifeItems == 1
MaxCleanups == 2

\* a turn ends before process_agent is entered: ChatStream has yielded the
\* events evs (none when the call itself raised), main has handled them and
\* has left its loop by its end (lines 302-308) or by its except clause
EndInPreamble(kwargs, evs, how, res, cached) ==
    LET st0 == [FreshMainState(MainState) EXCEPT !.panels = <<>>]
        st1 == IF Len(evs) = 0 THEN st0 ELSE MainHandle(st0, evs[1])
    IN /\ pc' = "idle"
       /\ endedBy' = how
       /\ raw' = <<>>
       /\ out' = evs
       /\ prov' = [k \in 1..Len(evs) |-> <<1, 0, 0, 0>>]
       /\ active_subagents' = EmptyDict
       /\ current_subagent' = None
       /\ aupdate_calls' = <<>>
       /\ resources' = res
       /\ major_agent' = cached
       /\ request' = kwargs
       /\ agent' = NoneObj
       /\ closed' = closed
       /\ SetMain(IF how = "propagated"
                  THEN [st1 EXCEPT !.panels = Append(@, RequestErrorPanel)]
                  ELSE CleanupMainState(st1))

\* a variant that builds an agent for every turn
ChatStreamCall_AlwaysBuilds(kwargs, init, built) ==
    /\ pc = "idle"
    /\ LET res == IF resources = NoneObj THEN FreshHandles ELSE resources IN
       IF ~Binds(kwargs)
       THEN EndInPreamble(kwargs, <<>>, "propagated", resources, major_agent)
       ELSE IF kwargs.model_name = "" \/ kwargs.base_url = "" \/ kwargs.api_key = ""
               \/ Get(kwargs, "human_message", "") = ""
       THEN EndInPreamble(kwargs, << [type |-> "error", content |-> InvalidRequest] >>,
                          "refused", resources, major_agent)
       ELSE IF resources = NoneObj /\ init # "ok"
       THEN EndInPreamble(kwargs, << [type |-> "error", content |-> InitFailed] >>,
                          "init_failed",
                          IF init = "setup_fails" THEN FreshHandles ELSE NoneObj, major_agent)
       ELSE IF built = "None"
       THEN EndInPreamble(kwargs, << [type |-> "error", content |-> BuildFailed] >>,
                          "build_failed", res, major_agent)
       ELSE IF built = "raises"
       THEN EndInPreamble(kwargs, << [type |-> "error", content |-> ChatStreamError] >>,
                          "chatstream_fault", res, major_agent)
       ELSE BeginStream(kwargs, res, Agent(kwargs, res))

\* a variant that initialises the resources before it validates the request
ChatStreamCall_InitFirst(kwargs, init, built) ==
    /\ pc = "idle"
    /\ LET res == IF resources = NoneObj THEN FreshHandles ELSE resources IN
       IF ~Binds(kwargs)
       THEN EndInPreamble(kwargs, <<>>, "propagated", resources, major_agent)
       ELSE IF kwargs.model_name = "" \/ kwargs.base_url = "" \/ kwargs.api_key = ""
               \/ Get(kwargs, "human_message", "") = ""
       THEN EndInPreamble(kwargs, << [type |-> "error", content |-> InvalidRequest] >>,
                          "refused", res, major_agent)
       ELSE IF resources = NoneObj /\ init # "ok"
       THEN EndInPreamble(kwargs, << [type |-> "error", content |-> InitFailed] >>,
                          "init_failed",
                          IF init = "setup_fails" THEN FreshHandles ELSE NoneObj, major_agent)
       ELSE IF major_agent = NoneObj /\ built = "None"
       THEN EndInPreamble(kwargs, << [type |-> "error", content |-> BuildFailed] >>,
                          "build_failed", res, NoneObj)
       ELSE IF major_agent = NoneObj /\ built = "raises"
       THEN EndInPreamble(kwargs, << [type |-> "error", content |-> ChatStreamError] >>,
                          "chatstream_fault", res, NoneObj)
       ELSE BeginStream(kwargs, res,
                        IF major_agent # NoneObj THEN major_agent ELSE Agent(kwargs, res))

\* main calls ChatStream (main.py 123-138) and ChatStream runs up to its loop
\* (chat.py 404-451): the call binds or raises, the request is validated, the
\* resources are initialised while _store or _checkpoint is None, and the
\* cached agent is taken, or one is built and cached
ChatStreamCall(kwargs, init, built) ==
    /\ pc = "idle"
    /\ LET res == IF resources = NoneObj THEN FreshHandles ELSE resources IN
       IF ~Binds(kwargs)
       THEN EndInPreamble(kwargs, <<>>, "propagated", resources, major_agent)
       ELSE IF kwargs.model_name = "" \/ kwargs.base_url = "" \/ kwargs.api_key = ""
               \/ Get(kwargs, "human_message", "") = ""
       THEN EndInPreamble(kwargs, << [type |-> "error", content |-> InvalidRequest] >>,
                          "refused", resources, major_agent)
       ELSE IF resources = NoneObj /\ init # "ok"
       THEN EndInPreamble(kwargs, << [type |-> "error", content |-> InitFailed] >>,
                          "init_failed",
                          IF init = "setup_fails" THEN FreshHandles ELSE NoneObj, major_agent)
       ELSE IF major_agent = NoneObj /\ built = "None"
       THEN EndInPreamble(kwargs, << [type |-> "error", content |-> BuildFailed] >>,
                          "build_failed", res, NoneObj)
       ELSE IF major_agent = NoneObj /\ built = "raises"
       THEN EndInPreamble(kwargs, << [type |-> "error", content |-> ChatStreamError] >>,
                          "chatstream_fault", res, NoneObj)
       ELSE BeginStream(kwargs, res,
                        IF major_agent # NoneObj THEN major_agent ELSE Agent(kwargs, res))

\* cleanup_resources (chat.py 538-571): the connections of _store and
\* _checkpoint are closed and both globals are set to None; _major_agent is
\* not assigned
cleanup_resources ==
    /\ pc = "idle"
    /\ Cardinality(closed) < MaxCleanups
    /\ closed' = IF resources = NoneObj THEN closed ELSE closed \cup {resources}
    /\ resources' = NoneObj
    /\ UNCHANGED <<pc, endedBy, raw, active_subagents, current_subagent, out, prov,
                   tool_calls, tool_results, thinking_buffer, answer_buffer,
                   current_live, panels, major_agent, request, agent, aupdate_calls>>

\* the calls of a program that runs several turns with a cleanup between them
KwargsA == TurnKwargs
KwargsB ==
    [model_name |-> "m2", base_url |-> "u2", api_key |-> "k2",
     system_prompt |-> "p2", human_message |-> "q"]
LifeArgs ==
    {KwargsA, KwargsB, [model_name |-> "m2", base_url |-> "u2", api_key |-> "k2"]}
    \cup {[KwargsA EXCEPT ![f] = ""] :
            f \in {"model_name", "base_url", "api_key", "human_message"}}
LifeItems ==
    {TokenItem(RootNs, <<TextBlock("Hi")>>, "model"),
     UpdateItem(RootNs, <<AIMessage(<<Call("search", "c1", SearchArgs)>>)>>)}

\* the turns and the cleanups of a program's life
NextLife ==
    \/ \E kwargs \in LifeArgs, init \in InitOutcomes, built \in BuildOutcomes :
          ChatStreamCall(kwargs, init, built)
    \/ \E item \in LifeItems : YieldItem(item, MaxLifeItems)
    \/ Exhaust
    \/ SourceFault
    \/ Cancel
    \/ cleanup_resources

SpecLife == Init /\ [][NextLife]_vars

NextChat ==
    \/ \E kwargs \in CallArgs, init \in InitOutcomes, built \in BuildOutcomes :
          ChatStreamCall(kwargs, init, built)
    \/ \E item \in RootItems : YieldItem(item, MaxChatItems)
    \/ Exhaust
    \/ SourceFault
    \/ Cancel

SpecChat == Init /\ [][NextChat]_vars

\* turns whose items are tokens of every shape and malformed messages
NextShapes ==
    \/ StartTurn
    \/ \E item \in ShapeItems : YieldItem(item, MaxShapeItems)
    \/ Exhaust
    \/ SourceFault
    \/ Cancel

SpecShapes == Init /\ [][NextShapes]_vars

\* turns around the read_image tool
NextImage ==
    \/ StartTurn
    \/ \E item \in ImageItems : YieldItem(item, MaxImageItems)
    \/ Exhaust
    \/ SourceFault
    \/ Cancel

SpecImage == Init /\ [][NextImage]_vars

\* turns with delegations to sub-agents
NextDeleg ==
    \/ StartTurn
    \/ \E item \in DelegItems : YieldItem(item, MaxDelegItems)
    \/ Exhaust
    \/ SourceFault
    \/ Cancel

SpecDeleg == Init /\ [][NextDeleg]_vars

\* turns with items that are skipped and items that raise part-way
NextEdge ==
    \/ StartTurn
    \/ \E item \in EdgeItems : YieldItem(item, MaxEdgeItems)
    \/ Exhaust
    \/ SourceFault
    \/ Cancel

SpecEdge == Init /\ [][NextEdge]_vars

\* turns in which only the root agent runs: longer streams of root-level items
NextRoot ==
    \/ StartTurn
    \/ \E item \in RootItems : YieldItem(item, MaxRootItems)
    \/ Exhaust
    \/ SourceFault
    \/ Cancel

SpecRoot == Init /\ [][NextRoot]_vars

---------------------------------------------------------------------------
(* Reading the raw stream and the event sequence *)

\* the messages of an "updates" item, node after node
RECURSIVE NodeMessages(_, _)
NodeMessages(items, n) ==
    IF n > Len(items) THEN <<>>
    ELSE (IF items[n][2] = NoneObj THEN <<>> ELSE Get(items[n][2], "messages", <<>>))
         \o NodeMessages(items, n + 1)

ItemMessages(item) ==
    IF item.stream_mode = "updates" /\ item.chunk # NoneObj
    THEN NodeMessages(item.chunk.items, 1)
    ELSE <<>>

\* the tool calls of a list of messages, in order
RECURSIVE CallsOf(_, _)
CallsOf(msgs, m) ==
    IF m > Len(msgs) THEN <<>> ELSE msgs[m].tool_calls \o CallsOf(msgs, m + 1)

IsToolMessage(msg) == msg.cls = "ToolMessage"

ItemCalls(item) == CallsOf(ItemMessages(item), 1)
ItemResults(item) == SelectSeq(ItemMessages(item), IsToolMessage)

IsRoot(item) == ~IsSubagent(item.namespace)

\* raw item n carries a root-level ordinary tool call / result with id i
IsOrdinaryCall(tc, i) ==
    "name" \in DOMAIN tc /\ tc["name"] # "task" /\ Get(tc, "id", None) = i
IsOrdinaryResult(msg, i) == msg.name # "task" /\ msg.tool_call_id = i

RawCallPos(i) ==
    UNION {{<<n, j>> : j \in {j \in 1..Len(ItemCalls(raw[n])) :
                                IsRoot(raw[n]) /\ IsOrdinaryCall(ItemCalls(raw[n])[j], i)}}
           : n \in 1..Len(raw)}
RawResultPos(i) ==
    UNION {{<<n, j>> : j \in {j \in 1..Len(ItemResults(raw[n])) :
                                IsRoot(raw[n]) /\ IsOrdinaryResult(ItemResults(raw[n])[j], i)}}
           : n \in 1..Len(raw)}

\* the invocation id an event carries
EvId(e) ==
    IF e.type \in {"tool_call", "tool_result", "sub_agent_tool_call", "sub_agent_tool_result"}
    THEN JsonLoads(e.content).id
    ELSE IF e.type \in {"sub_agent_start", "sub_agent_end"} THEN e.id
    ELSE None

\* positions of the events of one type and id in out
EvPos(type, i) == {k \in 1..Len(out) : out[k].type = type /\ EvId(out[k]) = i}

\* the "Complete" panels main has printed for id i
PairingPos(i) == {k \in 1..Len(panels) : panels[k].kind = "complete" /\ panels[k].id = i}
Pairings(i) == Cardinality(PairingPos(i))

TurnDone == pc = "idle" /\ endedBy = "exhausted"

---------------------------------------------------------------------------
(* Claims *)

\* C1: when a turn's raw stream has been consumed to its end, every id with
\* exactly one root-level ordinary call and exactly one root-level ordinary
\* result in the raw stream has exactly one completed call/result pairing.
C1_OnePairingPerId ==
    TurnDone =>
        \A i \in Ids :
            (Cardinality(RawCallPos(i)) = 1 /\ Cardinality(RawResultPos(i)) = 1)
                => Pairings(i) = 1

\* the same, for turns in which no raw item raised while it was processed
NoItemRaised == \A k \in 1..Len(out) : ~(out[k].type = "error" /\ out[k].content = InnerError)
C1_OnePairingWhenNoItemRaised ==
    (TurnDone /\ NoItemRaised) =>
        \A i \in Ids :
            (Cardinality(RawCallPos(i)) = 1 /\ Cardinality(RawResultPos(i)) = 1)
                => Pairings(i) = 1

\* C2 as stated: when the root-level result for X is in an earlier raw item
\* than the root-level call for X, the event sequence holds tool_call(X)
\* immediately followed by tool_result(X), and no tool_result(X) comes before
\* the first tool_call(X).
ResultArrivedFirst(i) ==
    /\ Cardinality(RawCallPos(i)) = 1
    /\ Cardinality(RawResultPos(i)) = 1
    /\ \E c \in RawCallPos(i), r \in RawResultPos(i) : r[1] < c[1]
    /\ EvPos("tool_call", i) # {}
C3_NoDoublePairing == \A i \in Ids : Pairings(i) <= 1

\* C4: every turn starts with an empty sub-agent mapping, an empty
\* current-active slot and empty pending buffers, however the turn before ended;
\* and a Complete panel is printed in a turn only for a call and a result that
\* were both received in that turn.
TurnStartsEmpty ==
    (pc = "idle" /\ pc' = "streaming") =>
        /\ active_subagents' = EmptyDict
        /\ current_subagent' = None
        /\ tool_calls' = EmptyDict
        /\ tool_results' = EmptyDict
        /\ raw' = <<>> /\ out' = <<>>
NoCrossTurnPairing ==
    \A i \in Ids :
        /\ Pairings(i) <= Cardinality(EvPos("tool_call", i))
        /\ Pairings(i) <= Cardinality(EvPos("tool_result", i))
        /\ (i \in DOMAIN tool_calls => EvPos("tool_call", i) # {})
        /\ (i \in DOMAIN tool_results => EvPos("tool_result", i) # {})
C4_NoRetentionAcrossTurns == [][TurnStartsEmpty]_vars /\ []NoCrossTurnPairing

\* a cancelled turn leaves a pending call, a pending result and a registered
\* sub-agent behind, and the next turn is about to start
C4_Witness ==
    /\ pc = "idle" /\ endedBy = "cancelled"
    /\ DOMAIN tool_calls # {} /\ DOMAIN tool_results # {}
    /\ DOMAIN active_subagents # {}

\* C5: no invocation id is in both pending buffers at once.
C5_NotInBothBuffers == DOMAIN tool_calls \cap DOMAIN tool_results = {}

\* a call met its buffered result and a result met its buffered call, while
\* another call is still pending
C5_Witness ==
    /\ Pairings("c1") = 1
    /\ \E r \in EvPos("tool_result", "c1"), c \in EvPos("tool_call", "c1") : r < c
    /\ "c2" \in DOMAIN tool_calls

\* the raw message an event of out was yielded for (events of "updates" items)
EvMessage(k) == raw[prov[k][1]].chunk.items[prov[k][2]][2].messages[prov[k][3]]

\* event k was yielded by the result branch of a message
FromResult(k) ==
    /\ out[k].type # "error"
    /\ prov[k][1] <= Len(raw)
    /\ raw[prov[k][1]].stream_mode = "updates"
    /\ prov[k][4] = Len(EvMessage(k).tool_calls) + 1

\* the three raw items of the delegation scenario and the events expected
ScenarioC ==
    << UpdateItem(RootNs, <<AIMessage(<<Call("task", "c1", TaskArgs("researcher"))>>)>>),
       UpdateItem(<<TaskSeg("c1")>>, <<ToolMessage("search", "c2", "ok")>>),
       UpdateItem(<<TaskSeg("c1")>>, <<ToolMessage("task", "c1", "done")>>) >>
ScenarioCEvents ==
    << [type |-> "sub_agent_start", subagent |-> "researcher", task |-> "find X", id |-> "c1"],
       [type |-> "sub_agent_tool_result",
        content |-> JsonDumps([content |-> "ok", id |-> "c2", subagent |-> "researcher"])],
       [type |-> "sub_agent_end", content |-> "done", id |-> "c1"] >>

\* C6: a result message whose tool name is the delegation marker yields
\* sub_agent_end with the result's id and content, in whatever namespace its
\* item is; the delegation scenario yields start, sub-agent tool result, end.
C6_DelegationResultIsEnd ==
    /\ \A k \in 1..Len(out) :
          (FromResult(k) /\ EvMessage(k).name = "task")
              => out[k] = [type |-> "sub_agent_end", content |-> EvMessage(k).content,
                           id |-> EvMessage(k).tool_call_id]
    /\ raw = ScenarioC => out = ScenarioCEvents

\* raw positions <<item, message>> of the delegation calls / results with id i
RawDelegCallPos(i) ==
    UNION {{<<n, j>> : j \in {j \in 1..Len(ItemCalls(raw[n])) :
                                LET tc == ItemCalls(raw[n])[j]
                                IN "name" \in DOMAIN tc /\ tc["name"] = "task"
                                   /\ Get(tc, "id", "") = i}}
           : n \in {n \in 1..Len(raw) : IsRoot(raw[n])}}
RawDelegResultPos(i) ==
    UNION {{<<n, j>> : j \in {j \in 1..Len(ItemResults(raw[n])) :
                                LET msg == ItemResults(raw[n])[j]
                                IN msg.name = "task" /\ msg.tool_call_id = i}}
           : n \in 1..Len(raw)}
RootDelegResultPos(i) == {p \in RawDelegResultPos(i) : IsRoot(raw[p[1]])}

\* the runtime has delivered one delegation call for i and, in a later item,
\* one delegation result for i
DelegationCompleted(i) ==
    /\ Cardinality(RawDelegCallPos(i)) = 1
    /\ Cardinality(RawDelegResultPos(i)) = 1
    /\ \A c \in RawDelegCallPos(i), r \in RawDelegResultPos(i) : c[1] < r[1]

\* C7: at the end of a turn, each sub_agent_start(i) has exactly one
\* sub_agent_end(i) after it (for the delegations the runtime completed).
C7_StartFollowedByOneEnd ==
    TurnDone =>
        \A i \in Ids :
            DelegationCompleted(i) =>
                \A b \in EvPos("sub_agent_start", i) :
                    Cardinality({e \in EvPos("sub_agent_end", i) : e > b}) = 1

\* the id of the sub-agent invocation whose namespace event k originates from
\* (None for the root namespace and for a namespace without a task: segment)
EvTask(k) ==
    IF prov[k][1] > Len(raw) THEN None
    ELSE LET ns == raw[prov[k][1]].namespace
             t == FirstTaskSeg(ns, 1)
         IN IF t = 0 THEN None ELSE ns[t][2]

SubAgentEventTypes ==
    {"sub_agent_answer", "sub_agent_thinking", "sub_agent_tool_call", "sub_agent_tool_result"}

\* C8: with the runtime's ordering (a delegation call before, and its result
\* after, everything of the sub-agent's namespace), no sub-agent event from
\* namespace task:i precedes sub_agent_start(i) or follows sub_agent_end(i).
C8_SubAgentEventsFramed ==
    \A i \in Ids : \A k \in 1..Len(out) :
        (out[k].type \in SubAgentEventTypes /\ EvTask(k) = i)
            => /\ \A b \in EvPos("sub_agent_start", i) : b < k
               /\ \A e \in EvPos("sub_agent_end", i) : k < e

\* a start, an event of the sub-agent's namespace, then the end
C8_Witness ==
    /\ Len(out) = 3
    /\ out[1].type = "sub_agent_start" /\ out[1].id = "c1"
    /\ out[2].type \in SubAgentEventTypes /\ EvTask(2) = "c1"
    /\ out[3].type = "sub_agent_end" /\ out[3].id = "c1"

\* place a before place b: by raw item, then node, message and element
Before(a, b) ==
    \E k \in 1..4 : a[k] < b[k] /\ \A j \in 1..(k - 1) : a[j] = b[j]

IsPrefix(s, t) == Len(s) <= Len(t) /\ \A k \in 1..Len(s) : s[k] = t[k]

\* C9: events are emitted in arrival order: by raw item, and within an item
\* in the order of its messages, tool calls and blocks; an emitted event is
\* never changed or withdrawn while its turn lasts.
InArrivalOrder ==
    /\ Len(prov) = Len(out)
    /\ \A k \in 1..(Len(out) - 1) : Before(prov[k], prov[k + 1])
    /\ \A k \in 1..Len(out) : prov[k][1] \in 1..(Len(raw) + 1)
EmittedStays == (pc = "streaming") => IsPrefix(out, out')
C9_ArrivalOrder == []InArrivalOrder /\ [][EmittedStays]_vars

\* three items, the first and the last with two events each
C9_Witness ==
    /\ Len(raw) = 3 /\ Len(out) = 5
    /\ prov[1][1] = 1 /\ prov[2][1] = 1 /\ prov[3][1] = 2
    /\ prov[4][1] = 3 /\ prov[5][1] = 3

\* the events of raw item n
EventsOfItem(n) == {k \in 1..Len(out) : prov[k][1] = n}
ItemRaised(n) == \E k \in EventsOfItem(n) : out[k].type = "error" /\ out[k].content = InnerError

\* C10: an item that raises gives one error event and does not end the
\* stream: the loop goes on, every later item still yields its events; a turn
\* ends only when the source is exhausted, raises or is cancelled.
LaterItemsProcessed ==
    \A n \in 1..Len(raw) :
        ItemRaised(n) =>
            /\ Cardinality({k \in EventsOfItem(n) : out[k].type = "error"}) = 1
            /\ \A m \in (n + 1)..Len(raw) :
                  Len(ProcessItem(raw[m], EmptyDict, None).events) = Cardinality(EventsOfItem(m))
EndsOnlyWithSource ==
    pc = "idle" => endedBy \in {"none", "exhausted", "source_fault", "cancelled"}
LastItemRaised == Len(raw) > 0 /\ ItemRaised(Len(raw))
StreamGoesOn == (Len(raw') = Len(raw) + 1 /\ LastItemRaised') => pc' = "streaming"
C10_ItemFaultContained ==
    [](LaterItemsProcessed /\ EndsOnlyWithSource) /\ [][StreamGoesOn]_vars

\* the first item raised, the next two were processed
C10_Witness ==
    /\ Len(raw) = 3 /\ ItemRaised(1)
    /\ EventsOfItem(2) # {} /\ EventsOfItem(3) # {}
    /\ ~ItemRaised(2) /\ ~ItemRaised(3)

\* the error events of the outer except clause of process_agent
SourceErrorPos == {k \in 1..Len(out) : out[k].type = "error" /\ out[k].content = OuterError}

\* C11: when the raw stream source raises while it is pulled, one error event
\* is appended to the events emitted so far, it is the last event of the turn
\* and the only one of its kind, and the stream has ended.
SourceFaultAppendsError ==
    (pc = "streaming" /\ endedBy' = "source_fault") =>
        /\ out' = Append(out, [type |-> "error", content |-> OuterError])
        /\ pc' = "idle"
EndedBySourceFault ==
    endedBy = "source_fault" =>
        /\ pc = "idle"
        /\ SourceErrorPos = {Len(out)}
NoSourceErrorWhileStreaming == pc = "streaming" => SourceErrorPos = {}
C11_SourceFaultIsTerminal ==
    /\ [][SourceFaultAppendsError]_vars
    /\ [](EndedBySourceFault /\ NoSourceErrorWhileStreaming)

\* two items gave three events, then the source raised
C11_Witness ==
    /\ endedBy = "source_fault"
    /\ Len(raw) = 2 /\ Len(out) = 4
    /\ out[1].type # "error" /\ out[3].type # "error"

\* the ways a turn ends in which ChatStream met a fault
FaultEndings == {"refused", "init_failed", "build_failed", "chatstream_fault", "source_fault"}

\* C12: whatever the arguments and whatever fails, no exception of ChatStream
\* reaches its consumer: a turn that ends by a fault has the fault as its last
\* event, an error event; and the consumer is back at its prompt, from where
\* the next turn starts.
C12_FaultsSurfaceAsErrors ==
    /\ endedBy # "propagated"
    /\ endedBy \in FaultEndings =>
          /\ Len(out) > 0 /\ out[Len(out)].type = "error"
          /\ pc = "idle"

\* the part of C12 that holds: when the call binds, every fault of a turn is
\* its last event, and the consumer is back at its prompt
C12_FaultsOfBoundCallsSurface ==
    endedBy \in FaultEndings =>
        /\ Len(out) > 0 /\ out[Len(out)].type = "error"
        /\ pc = "idle"
        /\ panels # <<>> /\ panels[Len(panels)] = [kind |-> "error", text |-> out[Len(out)].content]

\* the tracker of process_agent after the first n raw items of the turn
RECURSIVE Tracker(_)
Tracker(n) ==
    IF n = 0 THEN [active_subagents |-> EmptyDict, current_subagent |-> None]
    ELSE LET t == Tracker(n - 1)
             r == ProcessItem(raw[n], t.active_subagents, t.current_subagent)
         IN [active_subagents |-> r.active_subagents, current_subagent |-> r.current_subagent]

\* the sub-agent name process_agent resolves for raw item n
ResolvedName(n) ==
    SubagentName(raw[n].namespace, Tracker(n - 1).active_subagents,
                 Tracker(n - 1).current_subagent)

\* the events of raw item n, in order
ItemEvents(n) ==
    LET ks == EventsOfItem(n)
        first == CHOOSE k \in ks : \A j \in ks : k <= j
    IN [j \in 1..Cardinality(ks) |-> out[first + j - 1]]

IsTokenItem(item) == item.stream_mode = "messages"

\* the chunk of a token item has no token or no metadata: it is None, it lacks
\* a part, or a part is None
TokenMissing(item) ==
    IsTokenItem(item) /\ (item.chunk = NoneObj \/ Len(item.chunk.parts) < 2)
TokenNull(item) ==
    /\ IsTokenItem(item) /\ ~TokenMissing(item)
    /\ (item.chunk.parts[1] = NoneObj \/ item.chunk.parts[2] = NoneObj)
NoBlocks(item) ==
    /\ IsTokenItem(item) /\ ~TokenMissing(item) /\ ~TokenNull(item)
    /\ \/ "content_blocks" \notin DOMAIN item.chunk.parts[1]
       \/ item.chunk.parts[1].content_blocks = <<>>

\* C13: a token item whose token or metadata is missing or null, or whose
\* token has no content blocks, yields no event at all, an error event
\* included.
C13_AbsentTokenIsSkipped ==
    \A n \in 1..Len(raw) :
        (TokenMissing(raw[n]) \/ TokenNull(raw[n]) \/ NoBlocks(raw[n]))
            => EventsOfItem(n) = {}

\* the part of C13 that holds: a token or metadata that is None, and a token
\* without content blocks, yield no event
C13_NullTokenIsSkipped ==
    \A n \in 1..Len(raw) :
        (TokenNull(raw[n]) \/ NoBlocks(raw[n])) => EventsOfItem(n) = {}

\* a tool call of raw item n lacks its name, id or args, or a result its name
LacksName(item) ==
    \/ \E j \in 1..Len(ItemCalls(item)) : "name" \notin DOMAIN ItemCalls(item)[j]
    \/ \E j \in 1..Len(ItemResults(item)) : "name" \notin DOMAIN ItemResults(item)[j]
LacksIdOrArgs(item) ==
    \E j \in 1..Len(ItemCalls(item)) :
        {"id", "args"} \ DOMAIN ItemCalls(item)[j] # {}

\* every tool call and every result of raw item n has its event, none is an error
AllMessagesEmitted(n) ==
    /\ \A k \in EventsOfItem(n) : out[k].type # "error"
    /\ Cardinality(EventsOfItem(n)) = Len(ItemCalls(raw[n])) + Len(ItemResults(raw[n]))

\* C14: an item with a tool call or a result that lacks its name, id or args
\* yields no error event, and every call and result of the item is emitted.
C14_MalformedGetDefaults ==
    \A n \in 1..Len(raw) :
        (raw[n].stream_mode = "updates" /\ (LacksName(raw[n]) \/ LacksIdOrArgs(raw[n])))
            => AllMessagesEmitted(n)

\* the part of C14 that holds: a call that lacks its id or args and a result
\* that lacks its name are emitted, without an error event
CallLacksName(item) ==
    \E j \in 1..Len(ItemCalls(item)) : "name" \notin DOMAIN ItemCalls(item)[j]
C14_MissingIdArgsResultName ==
    \A n \in 1..Len(raw) :
        (raw[n].stream_mode = "updates" /\ ~CallLacksName(raw[n])) => AllMessagesEmitted(n)

\* C15: an item with a non-empty namespace for which no registered sub-agent
\* and no current sub-agent is found yields root events only, no sub-agent
\* event.
C15_UnresolvedGoesToRoot ==
    \A n \in 1..Len(raw) :
        (IsSubagent(raw[n].namespace) /\ ResolvedName(n) = None)
            => \A k \in EventsOfItem(n) : out[k].type \notin SubAgentEventTypes

\* C16: when the consumer cancels the stream in the middle of a turn, the
\* event sequence stays as it is: no completion event and no error event is
\* added; and the maps the turn had filled are gone when the next turn starts.
CancelAddsNoEvent ==
    (pc = "streaming" /\ endedBy' = "cancelled") => (out' = out /\ pc' = "idle")
CancelledMapsDiscarded ==
    (endedBy = "cancelled" /\ pc' = "streaming") =>
        /\ active_subagents' = EmptyDict /\ current_subagent' = None
        /\ tool_calls' = EmptyDict /\ tool_results' = EmptyDict
        /\ out' = <<>>
C16_CancelIsSilent == [][CancelAddsNoEvent /\ CancelledMapsDiscarded]_vars

\* a turn was cancelled after two events, with a call pending and a sub-agent
\* registered
C16_Witness ==
    /\ endedBy = "cancelled"
    /\ Len(out) = 2 /\ \A k \in 1..Len(out) : out[k].type # "error"
    /\ "c1" \in DOMAIN tool_calls
    /\ TaskKey("c2") \in DOMAIN active_subagents

\* the raw message a call of aupdate_state was made for
CallMessage(c) == raw[c.at[1]].chunk.items[c.at[2]][2].messages[c.at[3]]

\* the texts that carry the image tag
TaggedTexts == {TaggedImageText, TaggedRejectedText, TaggedEmptyText}

\* C17: agent.aupdate_state is called only for a root-level tool result of
\* the tool read_image whose content carries the tagged image payload, with
\* that payload as a user message, and at most once for each such result.
C17_InjectionOnlyForRootImages ==
    /\ \A j \in 1..Len(aupdate_calls) :
          LET c == aupdate_calls[j]
          IN /\ c.at[1] \in 1..Len(raw)
             /\ raw[c.at[1]].stream_mode = "updates"
             /\ IsRoot(raw[c.at[1]])
             /\ IsToolMessage(CallMessage(c))
             /\ CallMessage(c).name = "read_image"
             /\ CallMessage(c).content \in TaggedTexts
             /\ c.values = [messages |-> << [cls |-> "HumanMessage",
                                            content |-> JsonParse(CallMessage(c).content).value["content"]] >>]
    /\ \A i, j \in 1..Len(aupdate_calls) : aupdate_calls[i].at = aupdate_calls[j].at => i = j

\* one injection, in a turn that also had a read_image result in a sub-agent's
\* namespace and the tagged text as the result of another tool
C17_Witness ==
    /\ Len(aupdate_calls) = 1 /\ Len(raw) = 3
    /\ \E n \in 1..3 : raw[n] = UpdateItem(<<TaskSeg("c1")>>,
                                            <<ToolMessage("read_image", "c2", TaggedImageText)>>)
    /\ \E n \in 1..3 : raw[n] = UpdateItem(RootNs, <<ToolMessage("search", "c1", TaggedImageText)>>)

\* the error events of the image injection
InjectErrorPos == {k \in 1..Len(out) : out[k].type = "error" /\ out[k].content = InjectError}

\* the events of raw item n that are not error events: one for each call and
\* each result of the item
NothingSkipped(n) ==
    raw[n].stream_mode = "updates" =>
        Cardinality({k \in EventsOfItem(n) : out[k].type # "error"})
            = Len(ItemCalls(raw[n])) + Len(ItemResults(raw[n]))

\* C18: a call of aupdate_state that raises gives exactly one error event,
\* right after the tool_result event of its result; nothing else is an
\* injection error; the messages that follow in the item and the items that
\* follow in the stream are processed, and the turn goes on.
C18_InjectionFailureContained ==
    /\ \A j \in 1..Len(aupdate_calls) :
          LET c == aupdate_calls[j]
              es == {k \in InjectErrorPos :
                        prov[k] = <<c.at[1], c.at[2], c.at[3], c.at[4] + 1>>}
          IN aupdate_state_raises(c.values) =>
                /\ Cardinality(es) = 1
                /\ \A k \in es : k > 1 /\ out[k - 1].type = "tool_result"
                                   /\ prov[k - 1] = c.at
                /\ \A n \in c.at[1]..Len(raw) : NothingSkipped(n)
    /\ Cardinality(InjectErrorPos)
          = Cardinality({j \in 1..Len(aupdate_calls) : aupdate_state_raises(aupdate_calls[j].values)})
    /\ (InjectErrorPos # {} /\ pc = "idle") => endedBy \in {"exhausted", "source_fault", "cancelled"}

\* the injection failed for the first message of an item; its second message
\* and the next item were processed
C18_Witness ==
    /\ Len(raw) = 2 /\ Len(out) = 4
    /\ out[1].type = "tool_result" /\ out[2].type = "error" /\ out[2].content = InjectError
    /\ out[3].type = "tool_result" /\ prov[3][1] = 1
    /\ out[4].type = "tool_result" /\ prov[4][1] = 2

\* the type discriminators of the events of ChatStream
EventTypes ==
    {"model_answer", "model_thinking", "tool_call", "tool_result", "sub_agent_start",
     "sub_agent_answer", "sub_agent_thinking", "sub_agent_tool_call",
     "sub_agent_tool_result", "sub_agent_end", "error"}

\* C19: for the events process_agent yields for a raw item, ChatStream
\* yields as many events, of the same types in the same order, after the
\* events it has yielded before; every event of ChatStream has one of the
\* eleven type discriminators.
MappedOneToOne ==
    Len(raw') = Len(raw) + 1 =>
        LET r == ProcessItem(raw'[Len(raw')], active_subagents, current_subagent)
        IN /\ IsPrefix(out, out')
           /\ Len(out') = Len(out) + Len(r.events)
           /\ \A k \in 1..Len(r.events) : out'[Len(out) + k].type = r.events[k].type
TypesAreKnown == \A k \in 1..Len(out) : out[k].type \in EventTypes
C19_ChatStreamOneToOne == [][MappedOneToOne]_vars /\ []TypesAreKnown

\* a delegation, the sub-agent's thinking, a tool call and a result of the
\* sub-agent
C19_Witness ==
    /\ Len(out) = 4
    /\ out[1].type = "sub_agent_start" /\ out[2].type = "sub_agent_thinking"
    /\ out[3].type = "sub_agent_tool_call" /\ out[4].type = "sub_agent_tool_result"

\* what the blocks of a token are to yield, from the b-th block on: the
\* answer for a text block of the model node, the thinking for a reasoning
\* block, nothing for a block of another tag
RECURSIVE ExpectedOfBlocks(_, _, _, _, _)
ExpectedOfBlocks(blocks, b, node, sub, name) ==
    IF b > Len(blocks) THEN <<>>
    ELSE LET block == blocks[b]
             here ==
                 IF block.type = "text"
                 THEN IF node # "model" THEN <<>>
                      ELSE IF sub
                      THEN << [type |-> "sub_agent_answer", content |-> block.text,
                               subagent |-> name] >>
                      ELSE << [type |-> "model_answer", content |-> block.text] >>
                 ELSE IF block.type = "reasoning"
                 THEN IF sub
                      THEN << [type |-> "sub_agent_thinking", content |-> block.reasoning,
                               subagent |-> name] >>
                      ELSE << [type |-> "model_thinking", content |-> block.reasoning] >>
                 ELSE <<>>
         IN here \o ExpectedOfBlocks(blocks, b + 1, node, sub, name)

HasBlocks(item) ==
    IsTokenItem(item) /\ ~TokenMissing(item) /\ ~TokenNull(item) /\ ~NoBlocks(item)

\* the token with the single text block "Hi" of the model node, at the root
\* and in the namespace of the delegation c1
ScenarioDRoot == << TokenItem(RootNs, <<TextBlock("Hi")>>, "model") >>
ScenarioDSub ==
    << UpdateItem(RootNs, <<AIMessage(<<Call("task", "c1", TaskArgs("researcher"))>>)>>),
       TokenItem(<<TaskSeg("c1")>>, <<TextBlock("Hi")>>, "model") >>

\* C20: the events of a token item are those of its blocks, in block order:
\* text of the model node gives the answer, reasoning gives the thinking,
\* another tag gives nothing; in a sub-agent's namespace the sub-agent
\* variants carry the tracked name. The token [{type: text, text: Hi}] of the
\* model node gives [model_answer(Hi)] at the root and
\* [sub_agent_answer(Hi, researcher)] under the delegation to researcher.
C20_BlocksClassified ==
    /\ \A n \in 1..Len(raw) :
          HasBlocks(raw[n]) =>
              ItemEvents(n) = ExpectedOfBlocks(raw[n].chunk.parts[1].content_blocks, 1,
                                               Get(raw[n].chunk.parts[2], "langgraph_node", ""),
                                               IsSubagent(raw[n].namespace), ResolvedName(n))
    /\ (Len(raw) >= 1 /\ SubSeq(raw, 1, 1) = ScenarioDRoot)
          => ItemEvents(1) = << [type |-> "model_answer", content |-> "Hi"] >>
    /\ (Len(raw) >= 2 /\ SubSeq(raw, 1, 2) = ScenarioDSub)
          => ItemEvents(2) = << [type |-> "sub_agent_answer", content |-> "Hi",
                                 subagent |-> "researcher"] >>

\* the delegation scenario, then a root token with a block of another tag, a
\* reasoning block and a text block
C20_Witness ==
    /\ Len(raw) = 3 /\ SubSeq(raw, 1, 2) = ScenarioDSub
    /\ HasBlocks(raw[3]) /\ Len(raw[3].chunk.parts[1].content_blocks) = 3
    /\ Len(out) = 4
    /\ out[3].type = "model_thinking" /\ out[4].type = "model_answer"

\* raw item carries one root-level ordinary tool call with id i and nothing
\* else / one root-level ordinary result with id i and nothing else
SoleCall(item, i) ==
    /\ IsRoot(item) /\ item.stream_mode = "updates"
    /\ Len(ItemMessages(item)) = 1
    /\ Len(ItemCalls(item)) = 1 /\ IsOrdinaryCall(ItemCalls(item)[1], i)
    /\ Len(ItemResults(item)) = 0
SoleResult(item, i) ==
    /\ IsRoot(item) /\ item.stream_mode = "updates"
    /\ Len(ItemMessages(item)) = 1
    /\ Len(ItemCalls(item)) = 0
    /\ Len(ItemResults(item)) = 1 /\ IsOrdinaryResult(ItemResults(item)[1], i)

\* the two raw items of the call-then-result scenario and their events
ScenarioA ==
    << UpdateItem(RootNs, <<AIMessage(<<Call("search", "c1", SearchArgs)>>)>>),
       UpdateItem(RootNs, <<ToolMessage("search", "c1", "ok")>>) >>
ScenarioAEvents ==
    << [type |-> "tool_call",
        content |-> JsonDumps([name |-> "search", args |-> SearchArgs, id |-> "c1"])],
       [type |-> "tool_result", content |-> JsonDumps([content |-> "ok", id |-> "c1"])] >>

\* C21: when the item with the root-level ordinary call (name n, id X) comes
\* before the item with the root-level result for X (content c), the first
\* yields exactly tool_call(n, args, X) and the second exactly
\* tool_result(X, c); the stream [call search c1, result c1 "ok"] yields
\* [tool_call(search, c1), tool_result(c1, ok)].
C21_CallThenResult ==
    /\ \A i \in Ids : \A n \in 1..Len(raw) : \A m \in (n + 1)..Len(raw) :
          (SoleCall(raw[n], i) /\ SoleResult(raw[m], i)) =>
              LET tc == ItemCalls(raw[n])[1]
                  msg == ItemResults(raw[m])[1]
              IN /\ ItemEvents(n) =
                       << [type |-> "tool_call",
                           content |-> JsonDumps([name |-> tc["name"], args |-> tc["args"],
                                                  id |-> i])] >>
                 /\ ItemEvents(m) =
                       << [type |-> "tool_result",
                           content |-> JsonDumps([content |-> msg.content, id |-> i])] >>
    /\ (Len(raw) >= 2 /\ SubSeq(raw, 1, 2) = ScenarioA)
          => (Len(out) >= 2 /\ SubSeq(out, 1, 2) = ScenarioAEvents
              /\ EventsOfItem(1) \cup EventsOfItem(2) = {1, 2})

\* the call-then-result scenario, with another call between the two items
C21_Witness ==
    /\ Len(raw) = 3
    /\ raw[1] = ScenarioA[1] /\ raw[3] = ScenarioA[2]
    /\ SoleCall(raw[2], "c2")
    /\ Len(out) = 3 /\ out[1] = ScenarioAEvents[1] /\ out[3] = ScenarioAEvents[2]


\* raw item n carries, at whatever namespace, a call of the task tool
HasTaskCall(n) ==
    \E j \in 1..Len(ItemCalls(raw[n])) :
        "name" \in DOMAIN ItemCalls(raw[n])[j] /\ ItemCalls(raw[n])[j]["name"] = "task"
\* the name of the tool call an event reports
EvCallName(e) == JsonLoads(e.content).name

\* C22: every call of the task tool, whatever the namespace of its item, is a
\* delegation start: it yields sub_agent_start and registers the sub-agent,
\* it never yields a tool_call or a sub_agent_tool_call, and its id never
\* enters the consumer's buffers of calls and results.
C22_TaskCallIsAlwaysStart ==
    /\ \A k \in 1..Len(out) :
          out[k].type \in {"tool_call", "sub_agent_tool_call"} => EvCallName(out[k]) # "task"
    /\ \A n \in 1..Len(raw) :
          HasTaskCall(n) =>
              /\ \E k \in EventsOfItem(n) : out[k].type = "sub_agent_start"
              /\ \A j \in 1..Len(ItemCalls(raw[n])) :
                    ItemCalls(raw[n])[j]["name"] = "task" =>
                        TaskKey(ItemCalls(raw[n])[j].id) \in DOMAIN Tracker(n).active_subagents
    /\ \A n \in 1..Len(raw) : \A j \in 1..Len(ItemCalls(raw[n])) :
          (HasTaskCall(n) /\ ItemCalls(raw[n])[j]["name"] = "task"
              /\ RawCallPos(ItemCalls(raw[n])[j].id) = {}
              /\ RawResultPos(ItemCalls(raw[n])[j].id) = {})
          => ItemCalls(raw[n])[j].id \notin (DOMAIN tool_calls) \cup (DOMAIN tool_results)


\* the step appends a raw item that is one root-level ordinary call / result
\* with id i
CallArrives(i) == Len(raw') = Len(raw) + 1 /\ SoleCall(raw'[Len(raw')], i)
ResultArrives(i) == Len(raw') = Len(raw) + 1 /\ SoleResult(raw'[Len(raw')], i)
\* the transient "Processing" display of main for the call with id i
ProcessingLive(i, n) ==
    [renderable |-> [kind |-> "processing", id |-> i, name |-> n], transient |-> TRUE]

\* C23: when a root-level tool call with id X reaches the consumer and a
\* result for X is buffered, the completed pair is printed at once, the
\* buffered result is discarded and X is in neither buffer; otherwise the call
\* is buffered as pending and shown as provisional, with no pair printed.
CallReconciled ==
    \A i \in Ids :
        CallArrives(i) =>
            LET tc == ItemCalls(raw'[Len(raw')])[1] IN
            IF i \in DOMAIN tool_results
            THEN /\ IsPrefix(panels, panels') /\ Len(panels') > Len(panels)
                 /\ panels'[Len(panels')] =
                        CompletePanel(i, tc["name"], tc["args"], tool_results[i])
                 /\ Pairings(i)' = Pairings(i) + 1
                 /\ i \notin DOMAIN tool_calls' /\ i \notin DOMAIN tool_results'
                 /\ tool_results' = Del(tool_results, i)
            ELSE /\ tool_calls' = Put(tool_calls, i, [name |-> tc["name"], args |-> tc["args"]])
                 /\ tool_results' = tool_results
                 /\ current_live' = ProcessingLive(i, tc["name"])
                 /\ \A x \in Ids : Pairings(x)' = Pairings(x)
C23_CallStep == [][CallReconciled]_vars

\* the result of c1 was buffered and its call completed the pair; the call
\* of c2 is pending and shown as provisional
C23_Witness ==
    /\ Len(raw) = 3
    /\ SoleResult(raw[1], "c1") /\ SoleCall(raw[2], "c1") /\ SoleCall(raw[3], "c2")
    /\ panels = <<CompletePanel("c1", "search", SearchArgs, "ok")>>
    /\ DOMAIN tool_calls = {"c2"} /\ DOMAIN tool_results = {}
    /\ current_live = ProcessingLive("c2", "search")


\* C24: when a root-level tool result with id X reaches the consumer and a
\* call for X is buffered, the completed pair is printed, the buffered call is
\* discarded and X is in neither buffer; otherwise the result is buffered
\* until a call with id X comes, and nothing is rendered for it.
ResultReconciled ==
    \A i \in Ids :
        ResultArrives(i) =>
            LET msg == ItemResults(raw'[Len(raw')])[1] IN
            IF i \in DOMAIN tool_calls
            THEN /\ IsPrefix(panels, panels') /\ Len(panels') > Len(panels)
                 /\ panels'[Len(panels')] =
                        CompletePanel(i, tool_calls[i].name, tool_calls[i].args, msg.content)
                 /\ Pairings(i)' = Pairings(i) + 1
                 /\ tool_calls' = Del(tool_calls, i)
                 /\ i \notin DOMAIN tool_calls' /\ i \notin DOMAIN tool_results'
                 /\ current_live' = NoneObj
            ELSE /\ tool_results' = Put(tool_results, i, msg.content)
                 /\ tool_calls' = tool_calls
                 /\ panels' = panels /\ current_live' = current_live
C24_ResultStep == [][ResultReconciled]_vars

\* the result of c1 completed the pending call; the result of c2 came before
\* any call of c2 and is buffered, with nothing shown for it
C24_Witness ==
    /\ Len(raw) = 3
    /\ SoleCall(raw[1], "c1") /\ SoleResult(raw[2], "c1") /\ SoleResult(raw[3], "c2")
    /\ panels = <<CompletePanel("c1", "search", SearchArgs, "ok")>>
    /\ DOMAIN tool_calls = {} /\ tool_results = Put(EmptyDict, "c2", "ok")
    /\ current_live = NoneObj


\* C25: once a sub-agent's tool call with id X and its result with id X have
\* both been emitted, the consumer shows exactly one completed pair for X
\* (here for ids that no root-level call or result bears).
C25_SubAgentPairShown ==
    \A i \in Ids :
        (/\ Cardinality(EvPos("sub_agent_tool_call", i)) = 1
         /\ Cardinality(EvPos("sub_agent_tool_result", i)) = 1
         /\ RawCallPos(i) = {} /\ RawResultPos(i) = {})
        => Pairings(i) = 1


\* the sub-agent name an event carries
EvSubagent(e) ==
    IF e.type \in {"sub_agent_tool_call", "sub_agent_tool_result"}
    THEN JsonLoads(e.content).subagent
    ELSE e.subagent
\* the positions of the task: segments of a namespace
TaskSegs(ns) == {k \in 1..Len(ns) : ns[k][1] = "task:"}
\* the name the tracker, as it is before raw item n, gives to that item: the
\* one registered for its first task: segment, else the current sub-agent
ExpectedName(n) ==
    LET ns == raw[n].namespace
        t == Tracker(n - 1)
    IN IF TaskSegs(ns) = {} THEN t.current_subagent
       ELSE LET k == CHOOSE k \in TaskSegs(ns) : \A j \in TaskSegs(ns) : k <= j
            IN IF ns[k] \in DOMAIN t.active_subagents
               THEN t.active_subagents[ns[k]]
               ELSE t.current_subagent

\* C26: an item with a non-empty namespace is attributed to the name
\* registered for its first task: segment, whatever its later segments, and to
\* the current sub-agent when it has no such segment or the segment has no
\* registered name; resolving the name changes neither the mapping nor the
\* current sub-agent.
NameResolved ==
    \A n \in 1..Len(raw) :
        IsSubagent(raw[n].namespace) =>
            \A k \in EventsOfItem(n) :
                out[k].type \in SubAgentEventTypes =>
                    EvSubagent(out[k]) = ExpectedName(n)
ResolutionReadsOnly ==
    (Len(raw') = Len(raw) + 1 /\ IsSubagent(raw'[Len(raw')].namespace))
        => UNCHANGED <<active_subagents, current_subagent>>
C26_FirstTaskSegmentOrCurrent == []NameResolved /\ [][ResolutionReadsOnly]_vars

\* two delegations, then an item whose first task: segment is the older one's
\* while a later segment is the newer one's, and an item with no task: segment
C26_Witness ==
    /\ Len(raw) = 4
    /\ Tracker(2).current_subagent = "researcher"
    /\ DOMAIN Tracker(2).active_subagents = {TaskKey("c1"), TaskKey("c2")}
    /\ raw[3].namespace = MixedNs /\ raw[4].namespace = <<ToolsSeg>>
    /\ Len(out) = 4
    /\ out[3].type = "sub_agent_answer" /\ out[3].subagent = "coder"
    /\ out[4].type = "sub_agent_answer" /\ out[4].subagent = "researcher"


\* the id of the first task: segment of raw item m's namespace, None without
FirstTaskOf(m) ==
    LET ns == raw[m].namespace
    IN IF TaskSegs(ns) = {} THEN None
       ELSE ns[CHOOSE k \in TaskSegs(ns) : \A j \in TaskSegs(ns) : k <= j][2]

\* C27: after sub_agent_start(i, n), every later event of the turn that comes
\* from an item whose first task: segment is task:i carries subagent n,
\* whatever delegations started or ended in between and whatever the current
\* sub-agent is.
C27_RegisteredNameSticks ==
    \A s \in 1..Len(out) :
        out[s].type = "sub_agent_start" =>
            \A m \in (prov[s][1] + 1)..Len(raw) :
                FirstTaskOf(m) = out[s].id =>
                    \A k \in EventsOfItem(m) :
                        /\ out[k].type \in SubAgentEventTypes
                        /\ EvSubagent(out[k]) = out[s].subagent

\* c1 is delegated, c2 is delegated and ends, and then an item of the first
\* delegation's namespace comes while no sub-agent is current
C27_Witness ==
    /\ Len(raw) = 4 /\ Len(out) = 4
    /\ out[1].type = "sub_agent_start" /\ out[1].id = "c1" /\ out[1].subagent = "researcher"
    /\ out[2].type = "sub_agent_start" /\ out[2].id = "c2"
    /\ out[3].type = "sub_agent_end" /\ out[3].id = "c2"
    /\ Tracker(3).current_subagent = None
    /\ FirstTaskOf(4) = "c1"
    /\ out[4].type = "sub_agent_tool_call" /\ EvSubagent(out[4]) = "researcher"


\* the step appends a raw item that is one root-level call of the task tool
\* with id i / one root-level result of the task tool for id i
DelegationCallArrives(i) ==
    /\ Len(raw') = Len(raw) + 1
    /\ IsRoot(raw'[Len(raw')])
    /\ Len(ItemMessages(raw'[Len(raw')])) = 1
    /\ Len(ItemResults(raw'[Len(raw')])) = 0
    /\ Len(ItemCalls(raw'[Len(raw')])) = 1
    /\ ItemCalls(raw'[Len(raw')])[1]["name"] = "task"
    /\ ItemCalls(raw'[Len(raw')])[1].id = i
DelegationResultArrives(i) ==
    /\ Len(raw') = Len(raw) + 1
    /\ IsRoot(raw'[Len(raw')])
    /\ Len(ItemMessages(raw'[Len(raw')])) = 1
    /\ Len(ItemCalls(raw'[Len(raw')])) = 0
    /\ Len(ItemResults(raw'[Len(raw')])) = 1
    /\ ItemResults(raw'[Len(raw')])[1].name = "task"
    /\ ItemResults(raw'[Len(raw')])[1].tool_call_id = i

\* C28: a root-level call of the task tool with id i and target name n
\* registers "task:" + i -> n, makes n the current sub-agent, and yields one
\* sub_agent_start with n, the task description and i, and no other event.
DelegationStarts ==
    \A i \in Ids :
        DelegationCallArrives(i) =>
            LET args == ItemCalls(raw'[Len(raw')])[1].args IN
            /\ active_subagents' = Put(active_subagents, TaskKey(i), args.subagent_type)
            /\ current_subagent' = args.subagent_type
            /\ out' = Append(out, [type |-> "sub_agent_start", subagent |-> args.subagent_type,
                                   task |-> args.description, id |-> i])
C28_DelegationStart == [][DelegationStarts]_vars

\* c1 was delegated, then c2: both keys are registered, the second one's
\* name is current
C28_Witness ==
    /\ Len(raw) = 2 /\ pc = "streaming"
    /\ active_subagents = Put(Put(EmptyDict, TaskKey("c1"), "researcher"), TaskKey("c2"), "coder")
    /\ current_subagent = "coder"
    /\ out = << [type |-> "sub_agent_start", subagent |-> "researcher",
                 task |-> "find X", id |-> "c1"],
                [type |-> "sub_agent_start", subagent |-> "coder",
                 task |-> "find X", id |-> "c2"] >>


\* C29: a root-level result of the task tool for id i yields one
\* sub_agent_end with the result's content and i, sets the current sub-agent
\* to none whichever delegation had set it, also while other delegations have
\* not ended, and leaves the mapping of keys to names as it is.
DelegationEnds ==
    \A i \in Ids :
        DelegationResultArrives(i) =>
            LET msg == ItemResults(raw'[Len(raw')])[1] IN
            /\ out' = Append(out, [type |-> "sub_agent_end", content |-> msg.content, id |-> i])
            /\ current_subagent' = None
            /\ active_subagents' = active_subagents
C29_DelegationEnd == [][DelegationEnds]_vars

\* c1 and c2 were delegated, c2 is the current one; the result of c1 clears
\* the current sub-agent while c2 has not ended, and both keys stay
C29_Witness ==
    /\ Len(raw) = 3 /\ Len(out) = 3
    /\ Tracker(2).current_subagent = "coder"
    /\ out[3] = [type |-> "sub_agent_end", content |-> "done", id |-> "c1"]
    /\ EvPos("sub_agent_end", "c2") = {}
    /\ current_subagent = None
    /\ active_subagents = Put(Put(EmptyDict, TaskKey("c1"), "researcher"), TaskKey("c2"), "coder")


\* the step appends a raw item
ItemArrives == Len(raw') = Len(raw) + 1
\* a root-level "updates" item with a call or a result of the task tool
CarriesDelegation(item) ==
    /\ IsRoot(item) /\ item.stream_mode = "updates"
    /\ \/ \E j \in 1..Len(ItemCalls(item)) :
             "name" \in DOMAIN ItemCalls(item)[j] /\ ItemCalls(item)[j]["name"] = "task"
       \/ \E j \in 1..Len(ItemResults(item)) : ItemResults(item)[j].name = "task"

\* C30: while a turn lasts, the mapping of keys to names and the current
\* sub-agent change only when a root-level update item carries a delegation
\* call, which registers a key and sets the current sub-agent, or a
\* delegation result, which clears it; token items, items of a sub-agent's
\* namespace and ordinary root-level calls and results leave both unchanged.
TrackerFrame ==
    /\ (ItemArrives /\ ~CarriesDelegation(raw'[Len(raw')]))
          => UNCHANGED <<active_subagents, current_subagent>>
    /\ (~ItemArrives /\ pc = "streaming")
          => UNCHANGED <<active_subagents, current_subagent>>
    /\ (ItemArrives /\ CarriesDelegation(raw'[Len(raw')]))
          => \/ current_subagent' = None /\ active_subagents' = active_subagents
             \/ \E i \in Ids :
                   /\ current_subagent' # None
                   /\ active_subagents' = Put(active_subagents, TaskKey(i), current_subagent')
C30_TrackerChangesOnlyByDelegations == [][TrackerFrame]_vars

\* after the delegation of c1: a root-level token, a token of a sub-agent's
\* namespace and an ordinary root-level result, and the tracker is as the
\* delegation left it
C30_Witness ==
    /\ Len(raw) = 4 /\ pc = "streaming"
    /\ CarriesDelegation(raw[1])
    /\ IsRoot(raw[2]) /\ IsTokenItem(raw[2])
    /\ raw[3].namespace = MixedNs
    /\ SoleResult(raw[4], "c1")
    /\ active_subagents = Put(EmptyDict, TaskKey("c1"), "researcher")
    /\ current_subagent = "researcher"


\* a raw item one of whose tool calls has no name: tc['name'] raises
HasNamelessCall(item) ==
    /\ IsTriple(item)
    /\ \E j \in 1..Len(ItemCalls(item)) : "name" \notin DOMAIN ItemCalls(item)[j]
InnerErrorEvent == [type |-> "error", content |-> InnerError]

\* C31: an item whose processing raises part-way yields one error event,
\* after the events it had yielded before, and nothing after it; what the
\* item had written to the tracker before it raised (a registered sub-agent,
\* the current sub-agent) stays for the items that follow.
FaultedItemEndsWithError ==
    \A n \in 1..Len(raw) :
        HasNamelessCall(raw[n]) =>
            /\ EventsOfItem(n) # {}
            /\ ItemEvents(n)[Cardinality(EventsOfItem(n))] = InnerErrorEvent
            /\ Cardinality({k \in EventsOfItem(n) : out[k].type = "error"}) = 1
TrackerKeptForLaterItems ==
    \A n \in 1..Len(raw) : \A m \in (n + 1)..Len(raw) :
        (raw[n] = FaultAfterStart /\ raw[m] = TokenItem(<<TaskSeg("c2")>>, <<TextBlock("Hi")>>, "model"))
            => ItemEvents(m) = << [type |-> "sub_agent_answer", content |-> "Hi",
                                   subagent |-> "coder"] >>
FaultKeepsEarlierWork ==
    /\ (ItemArrives /\ raw'[Len(raw')] = FaultAfterStart) =>
          /\ out' = out \o << [type |-> "sub_agent_start", subagent |-> "coder",
                               task |-> "find X", id |-> "c2"], InnerErrorEvent >>
          /\ active_subagents' = Put(active_subagents, TaskKey("c2"), "coder")
          /\ current_subagent' = "coder"
          /\ pc' = "streaming"
    /\ (ItemArrives /\ raw'[Len(raw')] = FaultAfterEnd) =>
          /\ out' = out \o << [type |-> "sub_agent_end", content |-> "done", id |-> "c1"],
                              InnerErrorEvent >>
          /\ active_subagents' = active_subagents
          /\ current_subagent' = None
          /\ pc' = "streaming"
C31_FaultKeepsEarlierWork ==
    /\ [](FaultedItemEndsWithError /\ TrackerKeptForLaterItems)
    /\ [][FaultKeepsEarlierWork]_vars

\* the item registered coder and raised; the next item, of that delegation's
\* namespace, is attributed to coder
C31_Witness ==
    /\ Len(raw) = 2 /\ raw[1] = FaultAfterStart
    /\ Len(out) = 3
    /\ out[1].type = "sub_agent_start" /\ out[2] = InnerErrorEvent
    /\ out[3].type = "sub_agent_answer" /\ out[3].subagent = "coder"
    /\ active_subagents = Put(EmptyDict, TaskKey("c2"), "coder")


\* C32: every sub_agent_end of a turn comes after a sub_agent_start of the
\* same turn with the same id, whatever the raw stream, also when a
\* root-level delegation result comes without its delegation call.
C32_EndHasStart ==
    \A k \in 1..Len(out) :
        out[k].type = "sub_agent_end" =>
            \E j \in 1..(k - 1) : out[j].type = "sub_agent_start" /\ out[j].id = out[k].id


\* a raw item that is no triple, one whose mode is neither "messages" nor
\* "updates", an "updates" item whose chunk is None or whose nodes all have
\* no data
IsSkippedItem(item) ==
    \/ ~IsTriple(item)
    \/ item.stream_mode \notin {"messages", "updates"}
    \/ /\ item.stream_mode = "updates"
       /\ \/ item.chunk = NoneObj
          \/ \A n \in 1..Len(item.chunk.items) : item.chunk.items[n][2] = NoneObj

\* C36: a raw item that is not a triple, an item of another mode than
\* "messages" and "updates", an "updates" item without a chunk and a node
\* without data in an "updates" chunk are skipped: no event, no error event,
\* and the tracker stays as it was.
SkippedSilently ==
    /\ (ItemArrives /\ IsSkippedItem(raw'[Len(raw')])) =>
          /\ out' = out
          /\ UNCHANGED <<active_subagents, current_subagent>>
          /\ UNCHANGED <<tool_calls, tool_results, panels, current_live>>
          /\ pc' = "streaming"
    /\ (ItemArrives /\ raw'[Len(raw')] = NullThenCall) =>
          /\ out' = Append(out, [type |-> "tool_call",
                                 content |-> JsonDumps([name |-> "search", args |-> SearchArgs,
                                                        id |-> "c1"])])
          /\ UNCHANGED <<active_subagents, current_subagent>>
C36_SkippedSilently == [][SkippedSilently]_vars

\* after a delegation: an item that is no tuple and an item of mode "values"
\* have come, and the output and the tracker are as the delegation left them
C36_Witness ==
    /\ Len(raw) = 3 /\ pc = "streaming"
    /\ raw[2] = NotATuple
    /\ IsTriple(raw[3]) /\ raw[3].stream_mode = "values"
    /\ Len(out) = 1 /\ out[1].type = "sub_agent_start"
    /\ active_subagents = Put(EmptyDict, TaskKey("c1"), "researcher")
    /\ current_subagent = "researcher"


\* a step in which ChatStream is called (the other step of an idle program is
\* cleanup_resources, which closes handles)
CallStep == pc = "idle" /\ closed' = closed /\ request' # NoneObj
\* model_name, base_url, api_key or human_message is empty
EmptyField(kwargs) ==
    \/ kwargs.model_name = "" \/ kwargs.base_url = "" \/ kwargs.api_key = ""
    \/ Get(kwargs, "human_message", "") = ""
OneError(evs, content) == evs = << [type |-> "error", content |-> content] >>

\* C33: a ChatStream call with an empty model_name, base_url, api_key or
\* human_message yields one error event and ends, with no resources
\* initialised, no agent built and no stream started; a failed
\* initialisation of the resources and a failed build of the agent yield one
\* error event each, no other event, and the agent runtime is not called.
RefusedCall ==
    (CallStep /\ EmptyField(request')) =>
        /\ OneError(out', InvalidRequest)
        /\ pc' = "idle" /\ raw' = <<>>
        /\ resources' = resources /\ major_agent' = major_agent
        /\ agent' = NoneObj
FailedPreamble ==
    /\ (CallStep /\ endedBy' = "init_failed") =>
          /\ resources = NoneObj /\ OneError(out', InitFailed)
          /\ major_agent' = major_agent
    /\ (CallStep /\ endedBy' = "build_failed") =>
          /\ major_agent = NoneObj /\ OneError(out', BuildFailed)
    /\ (CallStep /\ endedBy' \in {"init_failed", "build_failed", "chatstream_fault"}) =>
          /\ Len(out') = 1 /\ out'[1].type = "error"
          /\ pc' = "idle" /\ raw' = <<>> /\ aupdate_calls' = <<>>
          /\ agent' = NoneObj
StreamNeedsAll ==
    pc = "streaming" =>
        /\ ~EmptyField(request)
        /\ resources # NoneObj /\ agent # NoneObj /\ agent = major_agent
C33_PreambleFailures == [][RefusedCall /\ FailedPreamble]_vars /\ []StreamNeedsAll

\* a request without api_key was refused while the program had no resources
\* and no agent, and it has none after
C33_Witness ==
    /\ pc = "idle" /\ endedBy = "refused"
    /\ request = [KwargsA EXCEPT !.api_key = ""]
    /\ OneError(out, InvalidRequest)
    /\ resources = NoneObj /\ major_agent = NoneObj /\ agent = NoneObj
    /\ closed = {}


\* C34: once build_agent has succeeded, every later turn runs that cached
\* agent and builds none, whatever model_name, base_url, api_key and
\* system_prompt it is given; after a failed build the cache stays empty, and
\* the next turn builds again, from its own arguments.
CachedAgentReused ==
    /\ (CallStep /\ major_agent # NoneObj) =>
          /\ major_agent' = major_agent
          /\ pc' = "streaming" => agent' = major_agent
    /\ (CallStep /\ major_agent # NoneObj /\ resources # NoneObj /\ ~EmptyField(request'))
          => pc' = "streaming"
FailedBuildLeavesCacheEmpty ==
    /\ (CallStep /\ endedBy' \in {"build_failed", "chatstream_fault"}) =>
          major_agent = NoneObj /\ major_agent' = NoneObj
    /\ (CallStep /\ major_agent = NoneObj /\ pc' = "streaming") =>
          /\ agent' = Agent(request', resources')
          /\ major_agent' = agent'
C34_AgentBuiltOnce == [][CachedAgentReused /\ FailedBuildLeavesCacheEmpty]_vars

\* an earlier turn built the agent from the first arguments; this turn, called
\* with other arguments, runs that same agent
C34_Witness ==
    /\ pc = "streaming" /\ request = KwargsB
    /\ agent = Agent(KwargsA, Handles(1))
    /\ major_agent = agent
    /\ agent.model_name # request.model_name /\ agent.system_prompt # request.system_prompt


\* C35: however turns and runs of cleanup_resources follow each other, the
\* agent a turn runs holds the store and the checkpointer that are open now:
\* no turn runs an agent built on handles that cleanup_resources has closed.
C35_AgentOnOpenHandles ==
    pc = "streaming" =>
        /\ agent.store = resources /\ agent.checkpointer = resources
        /\ agent.store \notin closed /\ agent.checkpointer \notin closed

---------------------------------------------------------------------------
(* The runtime's ordering of delegations *)

RawDelegCallIds == {i \in Ids : RawDelegCallPos(i) # {}}
RootDelegResultIds == {i \in Ids : RootDelegResultPos(i) # {}}

\* what the agent runtime guarantees of the item it yields next: an item of
\* namespace task:i comes after the root's delegation call i and before the
\* root's delegation result i; an invocation id is delegated once and the
\* result of a delegation follows its call
EngineAllows(item) ==
    LET t == FirstTaskSeg(item.namespace, 1)
        open == RawDelegCallIds \ RootDelegResultIds
    IN /\ t # 0 => item.namespace[t][2] \in open
       /\ IsRoot(item) =>
            /\ \A j \in 1..Len(ItemCalls(item)) :
                  LET tc == ItemCalls(item)[j]
                  IN ("name" \in DOMAIN tc /\ tc["name"] = "task")
                        => Get(tc, "id", "") \notin RawDelegCallIds
            /\ \A j \in 1..Len(ItemResults(item)) :
                  LET msg == ItemResults(item)[j]
                  IN msg.name = "task" => msg.tool_call_id \in open

NextEngine ==
    \/ StartTurn
    \/ \E item \in RawItems : EngineAllows(item) /\ YieldItem(item, MaxItems)
    \/ Exhaust
    \/ SourceFault
    \/ Cancel

SpecEngine == Init /\ [][NextEngine]_vars

====
